---- MODULE Spec2Model ----
(***************************************************************************)
(* SmartClassGrid scheduling engine: the shared Room/Faculty availability  *)
(* pool, the GreedyScheduler, the BacktrackingOptimizer, the               *)
(* ConstraintSolver and the ResourceOptimizer, each operation translated   *)
(* from its Python source.                                                 *)
(*                                                                         *)
(* Days and times are indices into the two lists every component hard      *)
(* codes: day 1..5 = Monday..Friday, time 1..10 = '08:00'..'17:00'.        *)
(* Floating point scores are kept as exact integers: every factor is       *)
(* scaled by a fixed power of ten (0.7 -> 70 of 100, 1.2 -> 12 of 10), so  *)
(* two scores compare as their products compare.                           *)
(***************************************************************************)
EXTENDS Integers, Sequences, FiniteSets, TLC

\* ---------------------------------------------------------------- bounds
MaxCourses == 2
LabDuration == 2
MaxLoaded == 2
MaxBuilt == 3
MaxConflicts == 2
SmallBudget == 1
MidBudget == 5
MaxOrdered == 3

\* ------------------------------------------------------ program constants
NumDays == 5
NumTimes == 10
max_iterations == 10000

Days == 1..NumDays
Times == 1..NumTimes
None == [none |-> TRUE]

\* ------------------------------------------------------------ input data
\* A Course (models/course.py). id and code are the position in the course
\* list; "" stands for room_type_required = None.
CourseKinds ==
    { [ course_type |-> ty,
        duration |-> IF ty = "lab" THEN LabDuration ELSE 1,
        capacity |-> cap,
        faculty_id |-> f,
        department |-> "CS",
        preferred_days |-> {},
        preferred_times |-> IF ty = "lab" THEN {2} ELSE {},
        required_equipment |-> IF ty = "lab" THEN {"projector"} ELSE {},
        room_type_required |-> IF cap = 30 THEN "classroom" ELSE "",
        consecutive_hours |-> FALSE ]
      : ty \in {"lecture", "lab"}, cap \in {10, 30}, f \in {1, 2} }

\* A Room (models/room.py) without its availability grid. Ratings are in
\* tenths (10 = the default 1.0).
RoomOf(cap) ==
    [ capacity |-> cap,
      room_type |-> "classroom",
      equipment |-> {"projector"},
      acoustics_rating |-> 10,
      lighting_rating |-> 10 ]

RoomLists == { <<RoomOf(20)>>, <<RoomOf(30)>>, <<RoomOf(30), RoomOf(20)>> }

\* The Faculty list (models/faculty.py) without the schedule tracking
\* fields: one tightly capped member and one with the default cap.
FacultyList ==
    << [ max_teaching_hours |-> 2, department |-> "CS",
         preferred_days |-> {}, preferred_times |-> {},
         unavailable_slots |-> {} ],
       [ max_teaching_hours |-> 20, department |-> "CS",
         preferred_days |-> {1}, preferred_times |-> {},
         unavailable_slots |-> {<<1, 1>>} ] >>

CourseLists ==
    UNION { [1..n -> CourseKinds] : n \in 1..MaxCourses }

\* Inputs of the component-level runs: small courses of the first faculty
\* member, and a lecture whose faculty_id names no Faculty.
UnitCourseKinds ==
    { k \in CourseKinds : k.capacity = 10 /\ k.faculty_id = 1 }
    \cup { [k EXCEPT !.faculty_id = Len(FacultyList) + 1] :
             k \in { j \in CourseKinds : /\ j.capacity = 10
                                         /\ j.faculty_id = 1
                                         /\ j.course_type = "lecture" } }

\* Course lists, the empty one included.
UnitCourseLists ==
    UNION { [1..n -> UnitCourseKinds] : n \in 0..MaxCourses }

\* Room lists, the empty one included.
UnitRoomLists == { <<>>, <<RoomOf(20)>> }

\* Two faculty members with the cap 1 hour of teaching each.
TightFacultyList ==
    [ f \in DOMAIN FacultyList |-> [FacultyList[1] EXCEPT !.max_teaching_hours = 1] ]

\* Faculty lists, the empty one included.
UnitFacultyLists == { <<>>, FacultyList, TightFacultyList }

\* Inputs of the greedy runs: courses of the first faculty member with five
\* different priority scores (0, 3, 13, 15, 19), whose preferred times make
\* them compete for Monday morning or ask for the last hour of the day.
OrderedCourse(ty, times, equipment, consecutive) ==
    [ course_type |-> ty,
      duration |-> IF ty = "lab" THEN LabDuration ELSE 1,
      capacity |-> 10,
      faculty_id |-> 1,
      department |-> "CS",
      preferred_days |-> {},
      preferred_times |-> times,
      required_equipment |-> equipment,
      room_type_required |-> "",
      consecutive_hours |-> consecutive ]

OrderedCourseKinds ==
    { OrderedCourse("lecture", {}, {}, FALSE),
      OrderedCourse("lecture", {1}, {}, FALSE),
      OrderedCourse("lab", {NumTimes}, {}, FALSE),
      OrderedCourse("lab", {1}, {"projector"}, FALSE),
      OrderedCourse("lab", {2}, {"projector"}, TRUE) }

OrderedCourseLists ==
    UNION { [1..n -> OrderedCourseKinds] : n \in 1..MaxOrdered }

\* One room, or two rooms alike.
OrderedRoomLists == { <<RoomOf(20)>>, <<RoomOf(20), RoomOf(20)>> }

\* One faculty member with the default cap, free all week or unavailable on
\* Monday at 10:00.
OrderedFacultyLists ==
    { << [ max_teaching_hours |-> 20, department |-> "CS",
           preferred_days |-> {}, preferred_times |-> {},
           unavailable_slots |-> un ] >> : un \in { {}, {<<1, 3>>} } }

\* Inputs of the ResourceOptimizer runs: small courses of either faculty
\* member, rooms of three sizes, and a second faculty member who may teach
\* one hour only.
OptimizerCourseKinds ==
    { [OrderedCourse(ty, {}, {}, FALSE) EXCEPT !.faculty_id = f]
      : ty \in {"lecture", "lab"}, f \in {1, 2} }

OptimizerCourseLists ==
    UNION { [1..n -> OptimizerCourseKinds] : n \in 1..MaxCourses }

OptimizerRoomLists ==
    { <<RoomOf(40), RoomOf(15), RoomOf(20)>>, <<RoomOf(40), RoomOf(20)>> }

OptimizerFacultyLists ==
    { << [FacultyList[1] EXCEPT !.max_teaching_hours = 2],
         [FacultyList[1] EXCEPT !.max_teaching_hours = cap] >> : cap \in {1, 20} }

\* Inputs of the ConstraintSolver runs: small courses, the lectures and
\* labs of the first faculty member and the labs of the second.
SolverCourseLists ==
    UNION { [1..n -> { k \in CourseKinds :
                         /\ k.capacity = 10
                         /\ (k.faculty_id = 1 \/ k.course_type = "lab") }]
            : n \in 1..MaxCourses }

SolverRoomLists == { <<RoomOf(20)>>, <<RoomOf(30), RoomOf(20)>> }

VARIABLES
    courses,      \* the Course list handed to every component
    rooms,        \* the Room list (static part)
    faculty,      \* the Faculty list (static part)
    availability, \* Room.availability: room -> set of occupied <<day, time>>
    assigned_slots,          \* Faculty.assigned_slots: faculty -> set of <<day, time>>
    current_teaching_hours,  \* Faculty.current_teaching_hours
    schedule,     \* the caller's current Schedule
    before,       \* the schedule and pool the last operation was called with
    passes,       \* the schedules after each ResourceOptimizer pass
    report,       \* the last validate_schedule report
    last          \* the last operation and how it ended

vars == << courses, rooms, faculty, availability, assigned_slots,
           current_teaching_hours, schedule, before, passes, report, last >>

\* ------------------------------------------------------------- the pool
\* The mutable state of all rooms and faculty, as one value.
Pool == [ availability |-> availability,
          assigned_slots |-> assigned_slots,
          current_teaching_hours |-> current_teaching_hours ]

FreshPool(rs, fs) ==
    [ availability |-> [r \in DOMAIN rs |-> {}],
      assigned_slots |-> [f \in DOMAIN fs |-> {}],
      current_teaching_hours |-> [f \in DOMAIN fs |-> 0] ]

\* The hours of the day grid a window starting at time t covers.
Window(t, duration) == { t + i : i \in 0..(duration - 1) } \cap Times

\* Room.is_available looking at the start hour only: the fault seeded to
\* test C24.
RoomIsAvailableAtStart(p, r, day, time, duration) ==
    /\ day \in Days
    /\ time \in Times
    /\ <<day, time>> \notin p.availability[r]

\* Room.is_available
RoomIsAvailable(p, r, day, time, duration) ==
    /\ day \in Days
    /\ time \in Times
    /\ \A i \in 0..(duration - 1) :
          /\ time + i <= NumTimes
          /\ <<day, time + i>> \notin p.availability[r]

\* Room.reserve_slot marking only the start hour: the fault seeded to test
\* C19.
ReserveSlotStartOnly(p, r, day, time, duration) ==
    [p EXCEPT !.availability[r] = @ \cup { <<day, time>> }]

\* Room.reserve_slot
ReserveSlot(p, r, day, time, duration) ==
    [p EXCEPT !.availability[r] = @ \cup { <<day, t>> : t \in Window(time, duration) }]

\* Faculty.is_available with the assigned_slots lookup left out: the fault
\* seeded to test C1.
FacultyIsAvailableIgnoringAssigned(fs, p, f, day, time, duration) ==
    /\ <<day, time>> \notin fs[f].unavailable_slots
    /\ p.current_teaching_hours[f] + duration <= fs[f].max_teaching_hours

\* Faculty.is_available: only the start hour is looked up in
\* unavailable_slots and assigned_slots.
FacultyIsAvailable(fs, p, f, day, time, duration) ==
    /\ <<day, time>> \notin fs[f].unavailable_slots
    /\ <<day, time>> \notin p.assigned_slots[f]
    /\ p.current_teaching_hours[f] + duration <= fs[f].max_teaching_hours

\* Faculty.assign_slot recording only the start hour: the fault seeded to
\* test C20.
AssignSlotStartOnly(p, f, day, time, duration) ==
    [p EXCEPT !.assigned_slots[f] = @ \cup { <<day, time>> },
              !.current_teaching_hours[f] = @ + duration]

\* Faculty.assign_slot
AssignSlot(p, f, day, time, duration) ==
    [p EXCEPT !.assigned_slots[f] = @ \cup { <<day, t>> : t \in Window(time, duration) },
              !.current_teaching_hours[f] = @ + duration]

\* Course.get_constraint_score, in hundredths.
GetConstraintScore(c, day, time) ==
    LET s1 == IF c.preferred_days # {} /\ day \notin c.preferred_days THEN 70 ELSE 100
        s2 == IF c.preferred_times # {} /\ time \notin c.preferred_times
              THEN (s1 * 8) \div 10 ELSE s1
    IN s2

\* Faculty.get_preference_score, in hundredths (1.2 * 1.2 = 1.44 < 2.0).
GetPreferenceScore(fm, day, time) ==
    LET s1 == IF fm.preferred_days # {} /\ day \in fm.preferred_days THEN 120 ELSE 100
        s2 == IF fm.preferred_times # {} /\ time \in fm.preferred_times
              THEN (s1 * 12) \div 10 ELSE s1
    IN IF s2 < 200 THEN s2 ELSE 200

\* ------------------------------------------------------------ schedules
\* Schedule(): no entries, no conflicts, accuracy_score 0.0. accuracy_score
\* is the fraction num/den of 100 of the last calculate_metrics.
EmptySchedule ==
    [ entries |-> <<>>, conflicts |-> <<>>,
      total_conflicts |-> 0, accuracy_score |-> [num |-> 0, den |-> 1] ]

\* Schedule.calculate_metrics: returns at once for a schedule without
\* entries, else accuracy_score = (entries - conflicts) / entries * 100.
CalculateMetrics(s) ==
    IF Len(s.entries) = 0 THEN s
    ELSE [s EXCEPT !.total_conflicts = Len(s.conflicts),
                   !.accuracy_score =
                       [num |-> (Len(s.entries) - Len(s.conflicts)) * 100,
                        den |-> Len(s.entries)]]

\* The conflict string "Could not schedule course {code}".
CouldNotSchedule(code) == [text |-> "Could not schedule course", code |-> code]

\* A ScheduleEntry that always lasts one hour: the fault seeded to test C21.
EntryOfOneHour(c, r, f, day, time, duration) ==
    [course |-> c, room |-> r, faculty |-> f, day |-> day, time |-> time,
     duration |-> 1]

Entry(c, r, f, day, time, duration) ==
    [course |-> c, room |-> r, faculty |-> f, day |-> day, time |-> time,
     duration |-> duration]

\* --------------------------------------------------------- GreedyScheduler
\* The priority score of _prioritize_courses.
Priority(c) ==
      (IF c.course_type = "lab" THEN 10 ELSE 0)
    + Cardinality(c.required_equipment) * 2
    + (IF c.capacity > 100 THEN 5 ELSE 0)
    + (IF c.preferred_times # {} THEN 3 ELSE 0)
    + (IF c.consecutive_hours THEN 4 ELSE 0)

\* heapq's sift of a pushed item (-priority, course) towards the root. Two
\* items of equal priority are compared on their Course, which defines no
\* order: the push raises TypeError.
RECURSIVE SiftDown(_, _, _, _)
SiftDown(cs, heap, pos, item) ==
    IF pos = 1 THEN [raised |-> FALSE, heap |-> [heap EXCEPT ![1] = item]]
    ELSE LET parent == heap[pos \div 2] IN
         IF Priority(cs[item]) = Priority(cs[parent])
         THEN [raised |-> TRUE, heap |-> heap]
         ELSE IF Priority(cs[item]) > Priority(cs[parent])
         THEN SiftDown(cs, [heap EXCEPT ![pos] = parent], pos \div 2, item)
         ELSE [raised |-> FALSE, heap |-> [heap EXCEPT ![pos] = item]]

\* _prioritize_courses: the heap array after pushing every course, in the
\* array's order (the heap is never popped).
RECURSIVE PrioritizeFrom(_, _, _)
PrioritizeFrom(cs, heap, i) ==
    IF i > Len(cs) THEN [raised |-> FALSE, heap |-> heap]
    ELSE LET pushed == SiftDown(cs, Append(heap, i), Len(heap) + 1, i) IN
         IF pushed.raised THEN pushed ELSE PrioritizeFrom(cs, pushed.heap, i + 1)

PrioritizeCourses(cs) == PrioritizeFrom(cs, <<>>, 1)

\* GreedyScheduler._is_valid_assignment with the capacity test left out:
\* the fault seeded to test C7.
IsValidAssignmentAnyCapacity(cs, rs, fs, p, c, r, day, time) ==
    /\ (cs[c].room_type_required # "" => rs[r].room_type = cs[c].room_type_required)
    /\ cs[c].required_equipment \subseteq rs[r].equipment
    /\ RoomIsAvailable(p, r, day, time, cs[c].duration)
    /\ FacultyIsAvailable(fs, p, cs[c].faculty_id, day, time, cs[c].duration)

\* GreedyScheduler._is_valid_assignment: capacity, room type, equipment,
\* room availability, faculty availability.
IsValidAssignment(cs, rs, fs, p, c, r, day, time) ==
    /\ rs[r].capacity >= cs[c].capacity
    /\ (cs[c].room_type_required # "" => rs[r].room_type = cs[c].room_type_required)
    /\ cs[c].required_equipment \subseteq rs[r].equipment
    /\ RoomIsAvailable(p, r, day, time, cs[c].duration)
    /\ FacultyIsAvailable(fs, p, cs[c].faculty_id, day, time, cs[c].duration)

\* GreedyScheduler._calculate_assignment_score, scaled by 100*100*10*20.
AssignmentScore(cs, rs, fs, c, r, day, time) ==
    LET ccap == cs[c].capacity
        rcap == rs[r].capacity
        bonus == IF 10 * ccap >= 7 * rcap /\ ccap <= rcap THEN 12
                 ELSE IF 2 * ccap < rcap THEN 8 ELSE 10
    IN GetConstraintScore(cs[c], day, time)
       * GetPreferenceScore(fs[cs[c].faculty_id], day, time)
       * bonus
       * (rs[r].acoustics_rating + rs[r].lighting_rating)

\* The k-th (day, time, room) triple of the three nested loops.
Triple(rs, k) ==
    LET n == Len(rs)
        slot == (k - 1) \div n
    IN [day |-> (slot \div NumTimes) + 1, time |-> (slot % NumTimes) + 1,
        room |-> ((k - 1) % n) + 1]

NumTriples(rs) == NumDays * NumTimes * Len(rs)

\* _find_best_assignment that tries only Monday 08:00 in every room: the
\* fault seeded to test C11.
FindBestAssignmentFirstSlotOnly(cs, rs, fs, p, c) ==
    LET valid == { k \in 1..Len(rs) :
                     IsValidAssignment(cs, rs, fs, p, c, Triple(rs, k).room, 1, 1) }
    IN IF valid = {} THEN None
       ELSE Triple(rs, CHOOSE k \in valid : \A j \in valid : k <= j)

\* GreedyScheduler._find_best_assignment: the first valid triple of the
\* highest score (best_score starts at -1 and only a greater score wins;
\* every score is positive).
FindBestAssignment(cs, rs, fs, p, c) ==
    LET valid == { k \in 1..NumTriples(rs) :
                     IsValidAssignment(cs, rs, fs, p, c, Triple(rs, k).room,
                                       Triple(rs, k).day, Triple(rs, k).time) }
        score == [ k \in valid |->
                     AssignmentScore(cs, rs, fs, c, Triple(rs, k).room,
                                     Triple(rs, k).day, Triple(rs, k).time) ]
        best_score == CHOOSE s \in { score[k] : k \in valid } :
                          \A k \in valid : score[k] <= s
        first == CHOOSE k \in valid :
                     /\ score[k] = best_score
                     /\ \A j \in valid : score[j] = best_score => k <= j
    IN IF valid = {} THEN None ELSE Triple(rs, first)

\* _find_best_assignment looks the course's faculty up in faculty_dict as
\* it builds the candidate for the first (day, time, room) triple, before
\* any validity test: an unknown faculty_id raises KeyError as soon as there
\* is a triple to try.
FindBestAssignmentRaises(cs, rs, fs, c) ==
    /\ NumTriples(rs) > 0
    /\ cs[c].faculty_id \notin DOMAIN fs

\* _update_availability that reserves the room and leaves the faculty
\* member alone: the fault seeded to test C28.
ApplyAssignmentToRoomOnly(p, e) ==
    ReserveSlot(p, e.room, e.day, e.time, e.duration)

\* _update_availability / _apply_assignment: reserve the room, assign the
\* faculty.
ApplyAssignment(p, e) ==
    AssignSlot(ReserveSlot(p, e.room, e.day, e.time, e.duration),
               e.faculty, e.day, e.time, e.duration)

\* The loop of GreedyScheduler.generate_schedule over the prioritized
\* courses.
RECURSIVE GreedyLoop(_, _, _, _, _, _, _)
GreedyLoop(cs, rs, fs, order, i, s, p) ==
    IF i > Len(order)
    THEN [error |-> "none", schedule |-> CalculateMetrics(s), pool |-> p]
    ELSE LET c == order[i]
             a == FindBestAssignment(cs, rs, fs, p, c)
         IN IF FindBestAssignmentRaises(cs, rs, fs, c)
            THEN [error |-> "KeyError", schedule |-> s, pool |-> p]
            ELSE IF a # None
            THEN LET e == Entry(c, a.room, cs[c].faculty_id, a.day, a.time,
                                cs[c].duration)
                 IN GreedyLoop(cs, rs, fs, order, i + 1,
                               [s EXCEPT !.entries = Append(@, e)],
                               ApplyAssignment(p, e))
            ELSE GreedyLoop(cs, rs, fs, order, i + 1,
                            [s EXCEPT !.conflicts = Append(@, CouldNotSchedule(c))], p)

\* generate_schedule starting from rooms and faculty it has cleared first:
\* the fault seeded to test C35.
GenerateScheduleOnFreshPool(cs, rs, fs, p) ==
    LET prio == PrioritizeCourses(cs) IN
    IF prio.raised
    THEN [raised |-> TRUE, error |-> "TypeError", schedule |-> EmptySchedule, pool |-> p,
          order |-> <<>>]
    ELSE LET res == GreedyLoop(cs, rs, fs, prio.heap, 1, EmptySchedule, FreshPool(rs, fs))
         IN [raised |-> res.error # "none", error |-> res.error,
             schedule |-> res.schedule, pool |-> res.pool, order |-> prio.heap]

\* GreedyScheduler.generate_schedule. When it raises, schedule is the local
\* Schedule as it stood at the raise; order is the list _prioritize_courses
\* returned, which the loop walks front to back.
GenerateSchedule(cs, rs, fs, p) ==
    LET prio == PrioritizeCourses(cs) IN
    IF prio.raised
    THEN [raised |-> TRUE, error |-> "TypeError", schedule |-> EmptySchedule, pool |-> p,
          order |-> <<>>]
    ELSE LET res == GreedyLoop(cs, rs, fs, prio.heap, 1, EmptySchedule, p)
         IN [raised |-> res.error # "none", error |-> res.error,
             schedule |-> res.schedule, pool |-> res.pool, order |-> prio.heap]

\* What SmartClassGrid.generate_schedule makes of the greedy run g: None
\* when it raised or returned a schedule without entries.
EngineAnswer(g) ==
    [is_none |-> g.raised \/ g.schedule.entries = <<>>,
     error |-> g.error, schedule |-> g.schedule, pool |-> g.pool]

\* SmartClassGrid.generate_schedule: the check of the three collections,
\* then the greedy run. Every exception is caught and None is returned; a
\* schedule without entries is answered with None as well.
EngineGenerateSchedule(cs, rs, fs, p) ==
    IF cs = <<>> \/ rs = <<>> \/ fs = <<>>
    THEN [is_none |-> TRUE, error |-> "ValueError", schedule |-> EmptySchedule,
          pool |-> p]
    ELSE EngineAnswer(GenerateSchedule(cs, rs, fs, p))

\* --------------------------------------------------- BacktrackingOptimizer
\* _get_unscheduled_courses: the courses without an entry, in list order.
UnscheduledCourses(cs, s) ==
    SelectSeq([i \in 1..Len(cs) |-> i],
              LAMBDA c : \A j \in 1..Len(s.entries) : s.entries[j].course # c)

\* _reset_availability that frees the rooms and leaves the faculty trackers
\* as they are: the fault seeded to test C39.
ResetAvailabilityOfRoomsOnly(rs, fs, p) ==
    [p EXCEPT !.availability = [r \in DOMAIN rs |-> p.availability[r] \ (Days \X Times)]]

\* _reset_availability: every slot of every room's grid is set free, and
\* every faculty member gets an empty assigned_slots and zero hours.
ResetAvailability(rs, fs, p) ==
    [ availability |-> [r \in DOMAIN rs |-> p.availability[r] \ (Days \X Times)],
      assigned_slots |-> [f \in DOMAIN fs |-> {}],
      current_teaching_hours |-> [f \in DOMAIN fs |-> 0] ]

\* _apply_assignments that reserves nothing: the fault seeded to test C6.
ApplyAssignmentsSkipped(p, entries) == p

\* _apply_assignments: a fold of _apply_assignment over the entries.
ApplyAssignments(p, entries) ==
    [ availability |->
        [r \in DOMAIN p.availability |->
            p.availability[r] \cup
            UNION { { <<entries[j].day, t>> : t \in Window(entries[j].time, entries[j].duration) }
                    : j \in { i \in 1..Len(entries) : entries[i].room = r } }],
      assigned_slots |->
        [f \in DOMAIN p.assigned_slots |->
            p.assigned_slots[f] \cup
            UNION { { <<entries[j].day, t>> : t \in Window(entries[j].time, entries[j].duration) }
                    : j \in { i \in 1..Len(entries) : entries[i].faculty = f } }],
      current_teaching_hours |->
        [f \in DOMAIN p.current_teaching_hours |->
            LET mine == SelectSeq(entries, LAMBDA e : e.faculty = f)
                sum[i \in 0..Len(mine)] ==
                    IF i = 0 THEN p.current_teaching_hours[f]
                    ELSE sum[i - 1] + mine[i].duration
            IN sum[Len(mine)]] ]

\* BacktrackingOptimizer._is_valid_assignment: the same five tests as the
\* greedy scheduler's.
BacktrackingIsValidAssignment(cs, rs, fs, p, c, r, day, time) ==
    /\ rs[r].capacity >= cs[c].capacity
    /\ (cs[c].room_type_required # "" => rs[r].room_type = cs[c].room_type_required)
    /\ cs[c].required_equipment \subseteq rs[r].equipment
    /\ RoomIsAvailable(p, r, day, time, cs[c].duration)
    /\ FacultyIsAvailable(fs, p, cs[c].faculty_id, day, time, cs[c].duration)

\* _calculate_faculty_continuity_bonus, in tenths.
FacultyContinuityBonus(p, f, day, time) ==
    IF \E t \in Times : <<day, t>> \in p.assigned_slots[f] /\ (t - time = 1 \/ time - t = 1)
    THEN 12 ELSE 10

\* _calculate_time_distribution_bonus, in hundredths.
TimeDistributionBonus(day, time) ==
    (IF day \in {2, 3, 4} THEN 11 ELSE 10) * (IF time \in {3, 4, 7, 8} THEN 11 ELSE 10)

\* _calculate_assignment_quality, scaled by 100*100*10*100*10.
AssignmentQuality(cs, rs, fs, p, c, r, day, time) ==
    LET ccap == cs[c].capacity
        rcap == rs[r].capacity
        util == IF 10 * ccap >= 8 * rcap /\ ccap <= rcap THEN 13
                ELSE IF 10 * ccap >= 6 * rcap /\ 10 * ccap < 8 * rcap THEN 11
                ELSE IF 2 * ccap < rcap THEN 7 ELSE 10
    IN GetConstraintScore(cs[c], day, time)
       * GetPreferenceScore(fs[cs[c].faculty_id], day, time)
       * util
       * TimeDistributionBonus(day, time)
       * FacultyContinuityBonus(p, cs[c].faculty_id, day, time)

\* _get_possible_assignments followed by the stable sort on quality, best
\* first: the numbers of the valid triples in the order they are tried.
PossibleAssignments(cs, rs, fs, p, c) ==
    LET all == [ k \in 1..NumTriples(rs) |->
                   <<AssignmentQuality(cs, rs, fs, p, c, Triple(rs, k).room,
                                       Triple(rs, k).day, Triple(rs, k).time), k>> ]
        valid == SelectSeq(all, LAMBDA x :
                     BacktrackingIsValidAssignment(cs, rs, fs, p, c,
                         Triple(rs, x[2]).room, Triple(rs, x[2]).day, Triple(rs, x[2]).time))
        sorted == SortSeq(valid, LAMBDA x, y :
                      x[1] > y[1] \/ (x[1] = y[1] /\ x[2] < y[2]))
    IN [ i \in 1..Len(sorted) |-> sorted[i][2] ]

\* _is_valid_state
IsValidState(fs, p) ==
    \A f \in DOMAIN fs : p.current_teaching_hours[f] <= fs[f].max_teaching_hours

\* _backtrack_optimize and its loop over the candidates lo..hi of one
\* level. is_none tells that the call returned None, else result is the
\* assignment list it returned; pool is the state the call leaves behind
\* (restored after every rejected candidate, so a level that returns None
\* leaves what its loop left); iteration is self.current_iteration.
Returned(assignments, p, iteration) ==
    [is_none |-> FALSE, result |-> assignments, pool |-> p, iteration |-> iteration]

ReturnedNone(p, iteration) ==
    [is_none |-> TRUE, result |-> <<>>, pool |-> p, iteration |-> iteration]

RECURSIVE BacktrackOptimize(_, _, _, _, _, _, _, _, _)
RECURSIVE TryCandidates(_, _, _, _, _, _, _, _, _, _, _, _)
\* The candidate loop without _restore_state: the fault seeded to test C27.
TryCandidatesWithoutRestore(cs, rs, fs, current, unscheduled, index, p, iteration, budget, possible, lo, hi) ==
    IF lo > hi THEN ReturnedNone(p, iteration)
    ELSE IF lo = hi
    THEN LET c == unscheduled[index]
             a == Triple(rs, possible[lo])
             e == Entry(c, a.room, cs[c].faculty_id, a.day, a.time, cs[c].duration)
             applied == ApplyAssignment(p, e)
         IN IF IsValidState(fs, applied)
            THEN LET sub == BacktrackOptimize(cs, rs, fs, Append(current, e),
                                              unscheduled, index + 1, applied, iteration,
                                              budget)
                 IN IF ~sub.is_none THEN sub
                    ELSE ReturnedNone(sub.pool, sub.iteration)
            ELSE ReturnedNone(applied, iteration)
    ELSE LET mid == (lo + hi) \div 2
             left == TryCandidates(cs, rs, fs, current, unscheduled, index, p,
                                   iteration, budget, possible, lo, mid)
         IN IF ~left.is_none THEN left
            ELSE TryCandidates(cs, rs, fs, current, unscheduled, index, left.pool,
                               left.iteration, budget, possible, mid + 1, hi)

TryCandidates(cs, rs, fs, current, unscheduled, index, p, iteration, budget, possible, lo, hi) ==
    IF lo > hi THEN ReturnedNone(p, iteration)
    ELSE IF lo = hi
    THEN LET c == unscheduled[index]
             a == Triple(rs, possible[lo])
             e == Entry(c, a.room, cs[c].faculty_id, a.day, a.time, cs[c].duration)
             applied == ApplyAssignment(p, e)
         IN IF IsValidState(fs, applied)
            THEN LET sub == BacktrackOptimize(cs, rs, fs, Append(current, e),
                                              unscheduled, index + 1, applied, iteration,
                                              budget)
                 IN IF ~sub.is_none THEN sub
                    ELSE ReturnedNone(p, sub.iteration)
            ELSE ReturnedNone(p, iteration)
    ELSE LET mid == (lo + hi) \div 2
             left == TryCandidates(cs, rs, fs, current, unscheduled, index, p,
                                   iteration, budget, possible, lo, mid)
         IN IF ~left.is_none THEN left
            ELSE TryCandidates(cs, rs, fs, current, unscheduled, index, p,
                               left.iteration, budget, possible, mid + 1, hi)

\* _backtrack_optimize answering None when the budget is exceeded: the
\* fault seeded to test C16.
BacktrackOptimizeGivesUp(cs, rs, fs, current, unscheduled, index, p, iteration, budget) ==
    IF iteration + 1 > budget
    THEN ReturnedNone(p, iteration + 1)
    ELSE IF index > Len(unscheduled)
    THEN Returned(current, p, iteration + 1)
    ELSE LET possible == PossibleAssignments(cs, rs, fs, p, unscheduled[index])
             tried == TryCandidates(cs, rs, fs, current, unscheduled, index, p,
                                    iteration + 1, budget, possible, 1, Len(possible))
         IN IF ~tried.is_none THEN tried
            ELSE ReturnedNone(tried.pool, tried.iteration)

\* _backtrack_optimize without the iteration ceiling: the fault seeded to
\* test C30.
BacktrackOptimizeWithoutCeiling(cs, rs, fs, current, unscheduled, index, p, iteration, budget) ==
    IF index > Len(unscheduled)
    THEN Returned(current, p, iteration + 1)
    ELSE LET possible == PossibleAssignments(cs, rs, fs, p, unscheduled[index])
             tried == TryCandidates(cs, rs, fs, current, unscheduled, index, p,
                                    iteration + 1, budget, possible, 1, Len(possible))
         IN IF ~tried.is_none THEN tried
            ELSE ReturnedNone(tried.pool, tried.iteration)

BacktrackOptimize(cs, rs, fs, current, unscheduled, index, p, iteration, budget) ==
    IF iteration + 1 > budget
    THEN Returned(current, p, iteration + 1)
    ELSE IF index > Len(unscheduled)
    THEN Returned(current, p, iteration + 1)
    ELSE LET possible == PossibleAssignments(cs, rs, fs, p, unscheduled[index])
             tried == TryCandidates(cs, rs, fs, current, unscheduled, index, p,
                                    iteration + 1, budget, possible, 1, Len(possible))
         IN IF ~tried.is_none THEN tried
            ELSE ReturnedNone(tried.pool, tried.iteration)

\* _assignments_to_schedule: entries only for a non-empty assignment list
\* (None and [] are both falsy), every course without an entry a conflict.
AssignmentsToSchedule(cs, found) ==
    LET entries == IF found.is_none THEN <<>> ELSE found.result
        missing == SelectSeq([i \in 1..Len(cs) |-> i],
                       LAMBDA c : \A j \in 1..Len(entries) : entries[j].course # c)
        s == [EmptySchedule EXCEPT
                 !.entries = entries,
                 !.conflicts = [i \in 1..Len(missing) |-> CouldNotSchedule(missing[i])]]
    IN CalculateMetrics(s)

\* BacktrackingOptimizer.optimize_schedule
OptimizeSchedule(cs, rs, fs, s, p, budget) ==
    LET start == ApplyAssignments(ResetAvailability(rs, fs, p), s.entries)
        found == BacktrackOptimize(cs, rs, fs, s.entries, UnscheduledCourses(cs, s),
                                   1, start, 0, budget)
    IN [schedule |-> AssignmentsToSchedule(cs, found), pool |-> found.pool,
        placed |-> ~found.is_none, iteration |-> found.iteration,
        path |-> found.result]

\* -------------------------------------------------------- ConstraintSolver
\* The six hard constraints of _setup_constraints, in registry order, by
\* their descriptions. Each validator reads the live pool.
HardConstraints ==
    << "Room capacity sufficient", "Room availability", "Faculty availability",
       "Required equipment available", "Room type compatibility",
       "Faculty teaching hours limit" >>

\* _validate_teaching_hours: the faculty's running total plus this one
\* assignment's duration against the cap.
ValidateTeachingHours(fs, p, a) ==
    p.current_teaching_hours[a.faculty] + a.duration <= fs[a.faculty].max_teaching_hours

\* The hard validators with the room validator overlooking the hours the
\* assignment itself has reserved: the fault seeded to test C36.
HardSatisfiedSparingOwnHours(description, cs, rs, fs, p, a) ==
    CASE description = "Room capacity sufficient" ->
            rs[a.room].capacity >= cs[a.course].capacity
      [] description = "Room availability" ->
            RoomIsAvailable(
                [p EXCEPT !.availability[a.room] =
                              @ \ { <<a.day, t>> : t \in Window(a.time, a.duration) }],
                a.room, a.day, a.time, a.duration)
      [] description = "Faculty availability" ->
            FacultyIsAvailable(fs, p, a.faculty, a.day, a.time, a.duration)
      [] description = "Required equipment available" ->
            cs[a.course].required_equipment \subseteq rs[a.room].equipment
      [] description = "Room type compatibility" ->
            (cs[a.course].room_type_required # "" =>
                rs[a.room].room_type = cs[a.course].room_type_required)
      [] description = "Faculty teaching hours limit" ->
            ValidateTeachingHours(fs, p, a)

\* The satisfied flag of the hard validator with the given description
\* (_validate_room_capacity, _validate_room_availability,
\* _validate_faculty_availability, _validate_equipment, _validate_room_type,
\* _validate_teaching_hours) for assignment a.
HardSatisfied(description, cs, rs, fs, p, a) ==
    CASE description = "Room capacity sufficient" ->
            rs[a.room].capacity >= cs[a.course].capacity
      [] description = "Room availability" ->
            RoomIsAvailable(p, a.room, a.day, a.time, a.duration)
      [] description = "Faculty availability" ->
            FacultyIsAvailable(fs, p, a.faculty, a.day, a.time, a.duration)
      [] description = "Required equipment available" ->
            cs[a.course].required_equipment \subseteq rs[a.room].equipment
      [] description = "Room type compatibility" ->
            (cs[a.course].room_type_required # "" =>
                rs[a.room].room_type = cs[a.course].room_type_required)
      [] description = "Faculty teaching hours limit" ->
            ValidateTeachingHours(fs, p, a)

\* _satisfies_hard_constraints
SatisfiesHardConstraints(cs, rs, fs, p, a) ==
    \A i \in DOMAIN HardConstraints : HardSatisfied(HardConstraints[i], cs, rs, fs, p, a)

\* The five soft constraints of _setup_constraints, in registry order. The
\* three preference constraints that follow them are validated as well, but
\* validate_schedule records nothing for them.
SoftConstraints ==
    << "Faculty preferred days", "Faculty preferred times", "Course time preferences",
       "Faculty break requirements", "Consecutive hours preference" >>

\* The soft validators with an unmet faculty preference reported as not
\* satisfied: the fault seeded to test C37.
SoftSatisfiedOnlyIfPreferred(description, cs, fs, p, a) ==
    CASE description = "Faculty preferred days" ->
            fs[a.faculty].preferred_days = {} \/ a.day \in fs[a.faculty].preferred_days
      [] description = "Faculty preferred times" ->
            fs[a.faculty].preferred_times = {} \/ a.time \in fs[a.faculty].preferred_times
      [] OTHER -> TRUE

\* The satisfied flag of the soft validator with the given description
\* (_validate_faculty_day_preference, _validate_faculty_time_preference,
\* _validate_course_time_preference, _validate_faculty_breaks,
\* _validate_consecutive_hours) for assignment a: each branch of each
\* validator returns True with a score of its own; the scores are not
\* modelled.
SoftSatisfied(description, cs, fs, p, a) ==
    CASE description = "Faculty preferred days" ->
            IF fs[a.faculty].preferred_days = {} THEN TRUE
            ELSE IF a.day \in fs[a.faculty].preferred_days THEN TRUE
            ELSE TRUE
      [] description = "Faculty preferred times" ->
            IF fs[a.faculty].preferred_times = {} THEN TRUE
            ELSE IF a.time \in fs[a.faculty].preferred_times THEN TRUE
            ELSE TRUE
      [] description = "Course time preferences" -> TRUE
      [] description = "Faculty break requirements" ->
            IF \A t \in Times : <<a.day, t>> \notin p.assigned_slots[a.faculty] THEN TRUE
            ELSE IF \E t \in Times : /\ <<a.day, t>> \in p.assigned_slots[a.faculty]
                                     /\ (t = a.time + 1 \/ t = a.time - 1)
            THEN TRUE
            ELSE TRUE
      [] description = "Consecutive hours preference" ->
            IF ~cs[a.course].consecutive_hours THEN TRUE
            ELSE IF a.duration > 1 THEN TRUE
            ELSE TRUE

\* ConstraintSolver.validate_schedule: valid, and the violation strings
\* "{description}: {code}" of the hard and of the soft constraints, each in
\* the order they are appended.
ValidateSchedule(cs, rs, fs, p, s) ==
    LET n == Len(s.entries)
        m == Len(HardConstraints)
        checks == [ k \in 1..(n * m) |->
                      [entry |-> ((k - 1) \div m) + 1, constraint |-> ((k - 1) % m) + 1] ]
        failed == SelectSeq(checks, LAMBDA x :
                      ~HardSatisfied(HardConstraints[x.constraint], cs, rs, fs, p,
                                     s.entries[x.entry]))
        ms == Len(SoftConstraints)
        soft_checks == [ k \in 1..(n * ms) |->
                      [entry |-> ((k - 1) \div ms) + 1, constraint |-> ((k - 1) % ms) + 1] ]
        unmet == SelectSeq(soft_checks, LAMBDA x :
                      ~SoftSatisfied(SoftConstraints[x.constraint], cs, fs, p,
                                     s.entries[x.entry]))
    IN [ valid |-> Len(failed) = 0,
         hard_violations |->
             [ i \in 1..Len(failed) |->
                 [description |-> HardConstraints[failed[i].constraint],
                  code |-> s.entries[failed[i].entry].course] ],
         soft_violations |->
             [ i \in 1..Len(unmet) |->
                 [description |-> SoftConstraints[unmet[i].constraint],
                  code |-> s.entries[unmet[i].entry].course] ] ]

\* A domain value {'room', 'day', 'time'} of the CSP.
DomainValue(rs, k) == Triple(rs, k)

\* The full assignment the solver builds around a domain value: the
\* faculty is looked up from the course's faculty_id.
FullAssignment(cs, c, v) ==
    Entry(c, v.room, cs[c].faculty_id, v.day, v.time, cs[c].duration)

\* _get_assignment_domain: the triple numbers that satisfy every hard
\* constraint against the pool as it stands, in loop order.
AssignmentDomain(cs, rs, fs, p, c) ==
    SelectSeq([k \in 1..NumTriples(rs) |-> k],
              LAMBDA k : SatisfiesHardConstraints(cs, rs, fs, p,
                             FullAssignment(cs, c, DomainValue(rs, k))))

\* _create_csp_variables: one variable per entry, "assignment_{i}".
CreateCspVariables(cs, rs, fs, p, s) ==
    [ i \in 1..Len(s.entries) |->
        [course |-> s.entries[i].course,
         domain |-> AssignmentDomain(cs, rs, fs, p, s.entries[i].course)] ]

\* One sweep that keeps a value whenever its room is free, whatever the
\* other hard constraints say: the fault seeded to test C33.
FilterDomainsByRoomOnly(cs, rs, fs, p, variables) ==
    [ i \in DOMAIN variables |->
        LET variable == variables[i] IN
        [variable EXCEPT !.domain =
            SelectSeq(@, LAMBDA k : HardSatisfied("Room availability", cs, rs, fs, p,
                             FullAssignment(cs, variable.course, DomainValue(rs, k))))] ]

\* One sweep of _constraint_propagation over all variables.
FilterDomains(cs, rs, fs, p, variables) ==
    [ i \in DOMAIN variables |->
        LET variable == variables[i] IN
        [variable EXCEPT !.domain =
            SelectSeq(@, LAMBDA k : SatisfiesHardConstraints(cs, rs, fs, p,
                             FullAssignment(cs, variable.course, DomainValue(rs, k))))] ]

\* _constraint_propagation: sweep until no domain shrinks.
RECURSIVE ConstraintPropagation(_, _, _, _, _)
ConstraintPropagation(cs, rs, fs, p, variables) ==
    LET swept == FilterDomains(cs, rs, fs, p, variables) IN
    IF \E i \in DOMAIN variables : Len(swept[i].domain) < Len(variables[i].domain)
    THEN ConstraintPropagation(cs, rs, fs, p, swept)
    ELSE swept

\* The number of times the while loop of _constraint_propagation runs.
RECURSIVE PropagationSweeps(_, _, _, _, _)
PropagationSweeps(cs, rs, fs, p, variables) ==
    LET swept == FilterDomains(cs, rs, fs, p, variables) IN
    IF \E i \in DOMAIN variables : Len(swept[i].domain) < Len(variables[i].domain)
    THEN 1 + PropagationSweeps(cs, rs, fs, p, swept)
    ELSE 1

\* _has_conflict
HasConflict(a1, a2) ==
    \/ a1.room = a2.room /\ a1.day = a2.day /\ a1.time = a2.time
    \/ a1.faculty = a2.faculty /\ a1.day = a2.day /\ a1.time = a2.time

\* _is_consistent: assignment is the sequence of <<variable, value>> pairs
\* assigned so far.
IsConsistent(cs, rs, variables, var, k, assignment) ==
    \A j \in 1..Len(assignment) :
        ~HasConflict(FullAssignment(cs, variables[var].course, DomainValue(rs, k)),
                     FullAssignment(cs, variables[assignment[j][1]].course,
                                    DomainValue(rs, assignment[j][2])))

\* _csp_backtrack and its loop over the domain values lo..hi of the
\* selected variable.
RECURSIVE CspBacktrack(_, _, _, _)
RECURSIVE TryValues(_, _, _, _, _, _, _)
TryValues(cs, rs, variables, assignment, var, lo, hi) ==
    IF lo > hi THEN [is_none |-> TRUE, solution |-> <<>>]
    ELSE IF lo = hi
    THEN LET k == variables[var].domain[lo] IN
         IF IsConsistent(cs, rs, variables, var, k, assignment)
         THEN CspBacktrack(cs, rs, variables, Append(assignment, <<var, k>>))
         ELSE [is_none |-> TRUE, solution |-> <<>>]
    ELSE LET mid == (lo + hi) \div 2
             left == TryValues(cs, rs, variables, assignment, var, lo, mid)
         IN IF ~left.is_none THEN left
            ELSE TryValues(cs, rs, variables, assignment, var, mid + 1, hi)

CspBacktrack(cs, rs, variables, assignment) ==
    IF Len(assignment) = Len(variables)
    THEN [is_none |-> FALSE, solution |-> assignment]
    ELSE LET assigned == { assignment[j][1] : j \in 1..Len(assignment) }
             unassigned == DOMAIN variables \ assigned
             \* min() keeps the first variable of the smallest domain
             var == CHOOSE v \in unassigned :
                        \A w \in unassigned :
                            \/ Len(variables[v].domain) < Len(variables[w].domain)
                            \/ Len(variables[v].domain) = Len(variables[w].domain) /\ v <= w
         IN TryValues(cs, rs, variables, assignment, var, 1, Len(variables[var].domain))

\* value.get('course_id') in _solution_to_schedule: a domain value holds
\* the keys room, day and time only, so the lookup gives None (0 here, no
\* course has that id).
ValueCourseId(variables, var, k) == 0

\* _solution_to_schedule: an entry for every variable whose course is found
\* by the id read from its value.
SolutionToSchedule(cs, rs, variables, solution) ==
    LET found == SelectSeq(solution, LAMBDA x :
                     ValueCourseId(variables, x[1], x[2]) \in DOMAIN cs)
        s == [EmptySchedule EXCEPT !.entries =
                 [ i \in 1..Len(found) |->
                     FullAssignment(cs, ValueCourseId(variables, found[i][1], found[i][2]),
                                    DomainValue(rs, found[i][2])) ]]
    IN CalculateMetrics(s)

\* solve_constraints answering a failed search with the entries whose
\* variable still has a value after propagation: the fault seeded to test
\* C17.
SolveConstraintsPartialRepair(cs, rs, fs, p, s) ==
    LET variables == ConstraintPropagation(cs, rs, fs, p,
                         CreateCspVariables(cs, rs, fs, p, s))
        found == CspBacktrack(cs, rs, variables, <<>>)
        solved == ~found.is_none /\ Len(found.solution) > 0
        kept == SelectSeq([i \in 1..Len(s.entries) |-> i],
                          LAMBDA i : Len(variables[i].domain) > 0)
    IN [ solved |-> solved,
         solution |-> found.solution,
         schedule |-> IF solved
                      THEN SolutionToSchedule(cs, rs, variables, found.solution)
                      ELSE [s EXCEPT !.entries = [i \in 1..Len(kept) |-> s.entries[kept[i]]]] ]

\* ConstraintSolver.solve_constraints: the search result, and the schedule
\* returned (the input schedule when the solution is None or empty).
SolveConstraints(cs, rs, fs, p, s) ==
    LET variables == ConstraintPropagation(cs, rs, fs, p,
                         CreateCspVariables(cs, rs, fs, p, s))
        found == CspBacktrack(cs, rs, variables, <<>>)
        solved == ~found.is_none /\ Len(found.solution) > 0
    IN [ solved |-> solved,
         solution |-> found.solution,
         schedule |-> IF solved
                      THEN SolutionToSchedule(cs, rs, variables, found.solution)
                      ELSE s ]

\* ------------------------------------------------------- ResourceOptimizer
\* list.remove(x): the list without its first element equal to x.
RemoveFirst(seq, x) ==
    LET at == CHOOSE i \in 1..Len(seq) :
                  seq[i] = x /\ \A j \in 1..(i - 1) : seq[j] # x
    IN [ i \in 1..(Len(seq) - 1) |-> IF i < at THEN seq[i] ELSE seq[i + 1] ]

\* list.sort(key=...): the stable ascending sort of seq, where key[i] is
\* the key of seq[i] as a fraction <<numerator, denominator>>.
SortByKey(seq, key) ==
    LET keyed == [ i \in 1..Len(seq) |-> <<i, key[i]>> ]
        sorted == SortSeq(keyed, LAMBDA x, y :
                      \/ x[2][1] * y[2][2] < y[2][1] * x[2][2]
                      \/ /\ x[2][1] * y[2][2] = y[2][1] * x[2][2]
                         /\ x[1] < y[1])
    IN [ i \in 1..Len(sorted) |-> seq[sorted[i][1]] ]

\* The Schedule every pass builds: the entries, no conflicts, metrics
\* recalculated.
PassSchedule(entries) ==
    CalculateMetrics([EmptySchedule EXCEPT !.entries = entries])

\* _is_room_compatible, and the same three tests in _find_better_room.
IsRoomCompatible(c, rm) ==
    /\ rm.capacity >= c.capacity
    /\ (c.room_type_required # "" => rm.room_type = c.room_type_required)
    /\ c.required_equipment \subseteq rm.equipment

\* _find_better_room with prefer_smaller: the smallest compatible other
\* room, if the course fills it better than the current one; 0 for None.
FindBetterRoom(cs, rs, e) ==
    LET candidates == SelectSeq([r \in 1..Len(rs) |-> r],
                          LAMBDA r : r # e.room /\ IsRoomCompatible(cs[e.course], rs[r]))
        sorted == SortByKey(candidates,
                      [ i \in 1..Len(candidates) |-> <<rs[candidates[i]].capacity, 1>> ])
        better == SelectSeq(sorted,
                      LAMBDA r : rs[r].capacity < rs[e.room].capacity)
    IN IF Len(better) = 0 THEN 0 ELSE better[1]

\* _free_room_slot
FreeRoomSlot(p, r, day, time, duration) ==
    [p EXCEPT !.availability[r] = @ \ { <<day, t>> : t \in Window(time, duration) }]

\* _optimize_room_utilization: the loop over the entries, which reserves
\* and frees rooms as it goes.
RECURSIVE RoomUtilizationLoop(_, _, _, _, _, _)
RoomUtilizationLoop(cs, rs, entries, i, optimized, p) ==
    IF i > Len(entries) THEN [entries |-> optimized, pool |-> p]
    ELSE LET e == entries[i]
             better == FindBetterRoom(cs, rs, e)
         IN IF /\ 10 * cs[e.course].capacity < 6 * rs[e.room].capacity
               /\ better # 0
               /\ RoomIsAvailable(p, better, e.day, e.time, e.duration)
            THEN RoomUtilizationLoop(cs, rs, entries, i + 1,
                     Append(optimized, [e EXCEPT !.room = better]),
                     FreeRoomSlot(ReserveSlot(p, better, e.day, e.time, e.duration),
                                  e.room, e.day, e.time, e.duration))
            ELSE RoomUtilizationLoop(cs, rs, entries, i + 1, Append(optimized, e), p)

OptimizeRoomUtilization(cs, rs, s, p) ==
    LET done == RoomUtilizationLoop(cs, rs, s.entries, 1, <<>>, p)
    IN [schedule |-> PassSchedule(done.entries), pool |-> done.pool]

\* The summed duration of the entries of faculty f.
FacultyLoad(entries, f) ==
    LET mine == SelectSeq(entries, LAMBDA e : e.faculty = f)
        sum[i \in 0..Len(mine)] == IF i = 0 THEN 0 ELSE sum[i - 1] + mine[i].duration
    IN sum[Len(mine)]

\* _can_faculty_teach_course
CanFacultyTeachCourse(fs, p, f, c) ==
    /\ fs[f].department = c.department
    /\ p.current_teaching_hours[f] + c.duration <= fs[f].max_teaching_hours

\* Replaying a pass's moves on its entry list: each moved entry is removed
\* and its replacement appended.
RECURSIVE ReplaceAll(_, _, _)
ReplaceAll(entries, moves, i) ==
    IF i > Len(moves) THEN entries
    ELSE ReplaceAll(Append(RemoveFirst(entries, moves[i].old), moves[i].new), moves, i + 1)

\* _optimize_faculty_load_balancing: every entry of an overloaded faculty
\* (load over 90% of the cap) goes to the first underloaded one (under
\* 60%) that can teach it and is available; the pool is only read.
OptimizeFacultyLoadBalancing(cs, fs, s, p) ==
    LET all == [f \in 1..Len(fs) |-> f]
        overloaded == SelectSeq(all, LAMBDA f :
                          10 * FacultyLoad(s.entries, f) > 9 * fs[f].max_teaching_hours)
        underloaded == SelectSeq(all, LAMBDA f :
                          10 * FacultyLoad(s.entries, f) < 6 * fs[f].max_teaching_hours)
        to_reassign(f) ==
            LET mine == SelectSeq(s.entries, LAMBDA e : e.faculty = f)
            IN SortByKey(mine, [ i \in 1..Len(mine) |->
                   <<Cardinality(cs[mine[i].course].required_equipment), 1>> ])
        work[i \in 0..Len(overloaded)] ==
            IF i = 0 THEN <<>> ELSE work[i - 1] \o to_reassign(overloaded[i])
        takers(e) == SelectSeq(underloaded, LAMBDA f :
                         /\ CanFacultyTeachCourse(fs, p, f, cs[e.course])
                         /\ FacultyIsAvailable(fs, p, f, e.day, e.time, e.duration))
        moved == SelectSeq(work[Len(overloaded)], LAMBDA e : Len(takers(e)) > 0)
        moves == [ i \in 1..Len(moved) |->
                     [old |-> moved[i], new |-> [moved[i] EXCEPT !.faculty = takers(moved[i])[1]]] ]
    IN PassSchedule(ReplaceAll(s.entries, moves, 1))

\* _can_move_entry
CanMoveEntry(cs, fs, p, e, new_day, new_time) ==
    /\ RoomIsAvailable(p, e.room, new_day, new_time, e.duration)
    /\ FacultyIsAvailable(fs, p, e.faculty, new_day, new_time, e.duration)
    /\ (cs[e.course].preferred_days # {} => new_day \in cs[e.course].preferred_days)
    /\ (cs[e.course].preferred_times # {} => new_time \in cs[e.course].preferred_times)

\* The 50 time slots in the order of the time_slots dictionary.
SlotList == [ k \in 1..(NumDays * NumTimes) |->
                <<((k - 1) \div NumTimes) + 1, ((k - 1) % NumTimes) + 1>> ]

\* _optimize_time_distribution: slots holding more than 1.5 times the mean
\* number of starting entries are overcrowded, less than half the mean
\* undercrowded; every entry of an overcrowded slot goes to the first
\* undercrowded slot it can move to. The pool is only read.
OptimizeTimeDistribution(cs, fs, s, p) ==
    LET n == Len(s.entries)
        count(slot) == Len(SelectSeq(s.entries,
                           LAMBDA e : e.day = slot[1] /\ e.time = slot[2]))
        overcrowded == SelectSeq(SlotList, LAMBDA slot :
                           2 * NumDays * NumTimes * count(slot) > 3 * n)
        undercrowded == SelectSeq(SlotList, LAMBDA slot :
                            2 * NumDays * NumTimes * count(slot) < n)
        slot_entries(slot) ==
            LET here == SelectSeq(s.entries, LAMBDA e : e.day = slot[1] /\ e.time = slot[2])
            IN SortByKey(here, [ i \in 1..Len(here) |->
                   <<Cardinality(cs[here[i].course].preferred_times)
                       + Cardinality(cs[here[i].course].preferred_days), 1>> ])
        work[i \in 0..Len(overcrowded)] ==
            IF i = 0 THEN <<>> ELSE work[i - 1] \o slot_entries(overcrowded[i])
        targets(e) == SelectSeq(undercrowded, LAMBDA slot :
                          CanMoveEntry(cs, fs, p, e, slot[1], slot[2]))
        moved == SelectSeq(work[Len(overcrowded)], LAMBDA e : Len(targets(e)) > 0)
        moves == [ i \in 1..Len(moved) |->
                     [old |-> moved[i],
                      new |-> [moved[i] EXCEPT !.day = targets(moved[i])[1][1],
                                               !.time = targets(moved[i])[1][2]]] ]
    IN PassSchedule(ReplaceAll(s.entries, moves, 1))

\* _calculate_entry_score, scaled by 10*200*20.
EntryScore(cs, rs, fs, e) ==
    LET ccap == cs[e.course].capacity
        rcap == rs[e.room].capacity
        band == IF 10 * ccap >= 8 * rcap /\ ccap <= rcap THEN 13
                ELSE IF 10 * ccap >= 6 * rcap /\ 10 * ccap < 8 * rcap THEN 11
                ELSE IF 2 * ccap < rcap THEN 6 ELSE 10
    IN band
       * (GetConstraintScore(cs[e.course], e.day, e.time)
            + GetPreferenceScore(fs[e.faculty], e.day, e.time))
       * (rs[e.room].acoustics_rating + rs[e.room].lighting_rating)

\* _find_better_assignment: the first other compatible, available room of
\* the highest score above the current one; 0 for None.
FindBetterAssignment(cs, rs, fs, p, e) ==
    LET rooms_ok == { r \in 1..Len(rs) :
                        /\ r # e.room
                        /\ IsRoomCompatible(cs[e.course], rs[r])
                        /\ RoomIsAvailable(p, r, e.day, e.time, e.duration)
                        /\ EntryScore(cs, rs, fs, [e EXCEPT !.room = r])
                             > EntryScore(cs, rs, fs, e) }
    IN IF rooms_ok = {} THEN 0
       ELSE CHOOSE r \in rooms_ok :
                \A q \in rooms_ok :
                    \/ EntryScore(cs, rs, fs, [e EXCEPT !.room = r])
                         > EntryScore(cs, rs, fs, [e EXCEPT !.room = q])
                    \/ /\ EntryScore(cs, rs, fs, [e EXCEPT !.room = r])
                            = EntryScore(cs, rs, fs, [e EXCEPT !.room = q])
                       /\ r <= q

\* _optimize_resource_efficiency: the ten entries that fill their room
\* least, those under 0.7 get the better assignment if there is one. The
\* pool is only read.
OptimizeResourceEfficiency(cs, rs, fs, s, p) ==
    LET sorted == SortByKey(s.entries, [ i \in 1..Len(s.entries) |->
                      <<cs[s.entries[i].course].capacity, rs[s.entries[i].room].capacity>> ])
        worst == SubSeq(sorted, 1, IF Len(sorted) < 10 THEN Len(sorted) ELSE 10)
        moved == SelectSeq(worst, LAMBDA e :
                     /\ 10 * cs[e.course].capacity < 7 * rs[e.room].capacity
                     /\ FindBetterAssignment(cs, rs, fs, p, e) # 0)
        moves == [ i \in 1..Len(moved) |->
                     [old |-> moved[i],
                      new |-> [moved[i] EXCEPT
                                  !.room = FindBetterAssignment(cs, rs, fs, p, moved[i])]] ]
    IN PassSchedule(ReplaceAll(s.entries, moves, 1))

\* The four passes with the input's conflict strings carried over to the
\* result: the fault seeded to test C38.
OptimizeResourceAllocationCarryingConflicts(cs, rs, fs, s, p) ==
    LET one == OptimizeRoomUtilization(cs, rs, s, p)
        two == OptimizeFacultyLoadBalancing(cs, fs, one.schedule, one.pool)
        three == OptimizeTimeDistribution(cs, fs, two, one.pool)
        four == OptimizeResourceEfficiency(cs, rs, fs, three, one.pool)
    IN [schedule |-> [four EXCEPT !.conflicts = s.conflicts], pool |-> one.pool,
        passes |-> << one.schedule, two, three, four >>]

\* ResourceOptimizer.optimize_resource_allocation: the four passes in turn.
OptimizeResourceAllocation(cs, rs, fs, s, p) ==
    LET one == OptimizeRoomUtilization(cs, rs, s, p)
        two == OptimizeFacultyLoadBalancing(cs, fs, one.schedule, one.pool)
        three == OptimizeTimeDistribution(cs, fs, two, one.pool)
        four == OptimizeResourceEfficiency(cs, rs, fs, three, one.pool)
    IN [schedule |-> four, pool |-> one.pool,
        passes |-> << one.schedule, two, three, four >>]

\* Exact fractions for the float arithmetic of calculate_resource_metrics:
\* [num, den] in lowest terms, den > 0.
RECURSIVE GCD(_, _)
GCD(a, b) == IF b = 0 THEN a ELSE GCD(b, a % b)

Frac(n, d) ==
    LET g == GCD(IF n < 0 THEN -n ELSE n, d)
    IN [num |-> n \div g, den |-> d \div g]

FracAdd(x, y) == Frac(x.num * y.den + y.num * x.den, x.den * y.den)

FracSub(x, y) == Frac(x.num * y.den - y.num * x.den, x.den * y.den)

FracMul(x, y) == Frac(x.num * y.num, x.den * y.den)

\* max(0, 100 - x)
ScoreFrom(x) ==
    LET d == FracSub(Frac(100, 1), x) IN IF d.num < 0 THEN Frac(0, 1) ELSE d

\* np.mean of a non-empty sequence of fractions.
FracMean(xs) ==
    LET sum[i \in 0..Len(xs)] == IF i = 0 THEN Frac(0, 1) ELSE FracAdd(sum[i - 1], xs[i])
    IN FracMul(sum[Len(xs)], Frac(1, Len(xs)))

\* np.var of a non-empty sequence of fractions: the mean squared distance
\* from the mean.
FracVar(xs) ==
    LET m == FracMean(xs)
    IN FracMean([ i \in 1..Len(xs) |-> FracMul(FracSub(xs[i], m), FracSub(xs[i], m)) ])

\* The room_usage dict of calculate_resource_metrics: the summed durations
\* of the entries in room r.
RoomUsage(entries, r) ==
    LET here == SelectSeq(entries, LAMBDA e : e.room = r)
        sum[i \in 0..Len(here)] == IF i = 0 THEN 0 ELSE sum[i - 1] + here[i].duration
    IN sum[Len(here)]

\* The metrics dictionary calculate_resource_metrics builds.
ResourceMetricsOf(cs, rs, fs, s) ==
    LET utilizations == [ r \in 1..Len(rs) |->
                            Frac(RoomUsage(s.entries, r) * 100, NumDays * NumTimes) ]
        faculty_loads == [ f \in 1..Len(fs) |->
                             Frac(FacultyLoad(s.entries, f) * 100, fs[f].max_teaching_hours) ]
        used == SelectSeq(SlotList, LAMBDA slot :
                    \E i \in 1..Len(s.entries) :
                        s.entries[i].day = slot[1] /\ s.entries[i].time = slot[2])
        time_usage == [ k \in 1..Len(used) |->
                          Frac(Cardinality({ i \in 1..Len(s.entries) :
                                               /\ s.entries[i].day = used[k][1]
                                               /\ s.entries[i].time = used[k][2] }), 1) ]
        efficiency_scores ==
            [ i \in 1..Len(s.entries) |->
                LET ccap == cs[s.entries[i].course].capacity
                    rcap == rs[s.entries[i].room].capacity
                IN IF ccap < rcap THEN Frac(ccap, rcap) ELSE Frac(1, 1) ]
        average_room_utilization ==
            IF Len(rs) > 0 THEN FracMean(utilizations) ELSE Frac(0, 1)
        faculty_load_balance ==
            IF Len(fs) > 0 THEN ScoreFrom(FracVar(faculty_loads)) ELSE Frac(0, 1)
        time_distribution_balance ==
            IF Len(used) > 0 THEN ScoreFrom(FracMul(FracVar(time_usage), Frac(2, 1)))
            ELSE Frac(0, 1)
        resource_efficiency_score ==
            IF Len(s.entries) > 0 THEN FracMul(FracMean(efficiency_scores), Frac(100, 1))
            ELSE Frac(0, 1)
    IN [ room_utilization_by_room |-> utilizations,
         faculty_load_by_faculty |-> faculty_loads,
         average_room_utilization |-> average_room_utilization,
         room_utilization_variance |->
             IF Len(rs) > 0 THEN FracVar(utilizations) ELSE Frac(0, 1),
         faculty_load_balance |-> faculty_load_balance,
         time_distribution_balance |-> time_distribution_balance,
         resource_efficiency_score |-> resource_efficiency_score,
         overall_efficiency |->
             FracAdd(FracAdd(FracMul(average_room_utilization, Frac(4, 10)),
                             FracMul(faculty_load_balance, Frac(3, 10))),
                     FracAdd(FracMul(resource_efficiency_score, Frac(1, 10)),
                             FracMul(time_distribution_balance, Frac(2, 10)))) ]

\* calculate_resource_metrics that reserves the rooms and assigns the
\* faculty of the entries it counts: the fault seeded to test C22.
CalculateResourceMetricsReserving(cs, rs, fs, s, p) ==
    [ metrics |-> ResourceMetricsOf(cs, rs, fs, s),
      schedule |-> s,
      pool |-> ApplyAssignments(p, s.entries) ]

\* ResourceOptimizer.calculate_resource_metrics: the metrics it returns, and
\* the schedule and pool as the call leaves them; it only reads both.
CalculateResourceMetrics(cs, rs, fs, s, p) ==
    [ metrics |-> ResourceMetricsOf(cs, rs, fs, s),
      schedule |-> s,
      pool |-> p ]

\* ------------------------------------------------------- ConflictDetector
\* The grouping shared by _detect_room_conflicts and
\* _detect_faculty_conflicts, with only the first two course codes of a
\* group listed: the fault seeded to test C13.
GroupedConflictsFirstPair(entries, keys) ==
    LET idx == [i \in 1..Len(entries) |-> i]
        firsts == SelectSeq(idx, LAMBDA i :
                      /\ \A j \in 1..(i - 1) : keys[j] # keys[i]
                      /\ \E j \in (i + 1)..Len(entries) : keys[j] = keys[i])
    IN [ k \in 1..Len(firsts) |->
           LET group == SelectSeq(idx, LAMBDA j : keys[j] = keys[firsts[k]])
           IN [ id |-> keys[firsts[k]][1], day |-> keys[firsts[k]][2],
                time |-> keys[firsts[k]][3],
                conflicting_courses |-> << entries[group[1]].course,
                                           entries[group[2]].course >> ] ]

\* The grouping shared by _detect_room_conflicts and
\* _detect_faculty_conflicts, with the entries of one room or faculty member
\* and day grouped when their windows overlap: the fault seeded to test C40.
GroupedConflictsByWindow(entries, keys) ==
    LET idx == [i \in 1..Len(entries) |-> i]
        Overlap(i, j) ==
            /\ keys[i][1] = keys[j][1]
            /\ keys[i][2] = keys[j][2]
            /\ Window(entries[i].time, entries[i].duration)
                 \cap Window(entries[j].time, entries[j].duration) # {}
        firsts == SelectSeq(idx, LAMBDA i :
                      /\ \A j \in 1..(i - 1) : ~Overlap(j, i)
                      /\ \E j \in (i + 1)..Len(entries) : Overlap(i, j))
    IN [ k \in 1..Len(firsts) |->
           LET group == SelectSeq(idx, LAMBDA j : Overlap(firsts[k], j))
           IN [ id |-> keys[firsts[k]][1], day |-> keys[firsts[k]][2],
                time |-> keys[firsts[k]][3],
                conflicting_courses |-> [ m \in 1..Len(group) |->
                                            entries[group[m]].course ] ] ]

\* The grouping shared by _detect_room_conflicts and
\* _detect_faculty_conflicts: the entries are collected in a dict keyed by
\* (id, day, time); every key holding more than one entry gives one record,
\* in the order the keys were first seen, listing the course codes of its
\* entries in schedule order.
GroupedConflicts(entries, keys) ==
    LET idx == [i \in 1..Len(entries) |-> i]
        firsts == SelectSeq(idx, LAMBDA i :
                      /\ \A j \in 1..(i - 1) : keys[j] # keys[i]
                      /\ \E j \in (i + 1)..Len(entries) : keys[j] = keys[i])
    IN [ k \in 1..Len(firsts) |->
           LET group == SelectSeq(idx, LAMBDA j : keys[j] = keys[firsts[k]])
           IN [ id |-> keys[firsts[k]][1], day |-> keys[firsts[k]][2],
                time |-> keys[firsts[k]][3],
                conflicting_courses |-> [ m \in 1..Len(group) |->
                                            entries[group[m]].course ] ] ]

\* ConflictDetector._detect_room_conflicts
DetectRoomConflicts(s) ==
    LET found == GroupedConflicts(s.entries,
                     [ i \in 1..Len(s.entries) |->
                         << s.entries[i].room, s.entries[i].day, s.entries[i].time >> ])
    IN [ k \in 1..Len(found) |->
           [ type |-> "room_double_booking", room_id |-> found[k].id,
             day |-> found[k].day, time |-> found[k].time,
             conflicting_courses |-> found[k].conflicting_courses ] ]

\* ConflictDetector._detect_faculty_conflicts
DetectFacultyConflicts(s) ==
    LET found == GroupedConflicts(s.entries,
                     [ i \in 1..Len(s.entries) |->
                         << s.entries[i].faculty, s.entries[i].day, s.entries[i].time >> ])
    IN [ k \in 1..Len(found) |->
           [ type |-> "faculty_double_booking", faculty_id |-> found[k].id,
             day |-> found[k].day, time |-> found[k].time,
             conflicting_courses |-> found[k].conflicting_courses ] ]

\* ConflictDetector._detect_capacity_conflicts
DetectCapacityConflicts(cs, rs, s) ==
    LET over == SelectSeq(s.entries,
                    LAMBDA e : cs[e.course].capacity > rs[e.room].capacity)
    IN [ k \in 1..Len(over) |->
           [ type |-> "capacity_exceeded", course_code |-> over[k].course,
             room_id |-> over[k].room,
             required_capacity |-> cs[over[k].course].capacity,
             room_capacity |-> rs[over[k].room].capacity ] ]

\* The faculty_hours dict of _detect_faculty_overload: the summed durations
\* of a faculty member's entries.
FacultyHours(s, f) == FacultyLoad(s.entries, f)

\* ConflictDetector._detect_faculty_overload: the loop over the entries
\* appends a record for the first entry whose faculty is over the limit and
\* then breaks.
DetectFacultyOverload(fs, s) ==
    LET over == { i \in 1..Len(s.entries) :
                    FacultyHours(s, s.entries[i].faculty)
                        > fs[s.entries[i].faculty].max_teaching_hours }
        i == CHOOSE j \in over : \A k \in over : j <= k
    IN IF over = {} THEN <<>>
       ELSE << [ type |-> "faculty_overload", faculty_id |-> s.entries[i].faculty,
                 assigned_hours |-> FacultyHours(s, s.entries[i].faculty),
                 max_hours |-> fs[s.entries[i].faculty].max_teaching_hours ] >>

\* ConflictDetector._detect_equipment_conflicts
DetectEquipmentConflicts(cs, rs, s) ==
    LET lacking == SelectSeq(s.entries, LAMBDA e :
                       ~(cs[e.course].required_equipment \subseteq rs[e.room].equipment))
    IN [ k \in 1..Len(lacking) |->
           [ type |-> "equipment_missing", course_code |-> lacking[k].course,
             room_id |-> lacking[k].room,
             missing_equipment |-> cs[lacking[k].course].required_equipment
                                       \ rs[lacking[k].room].equipment ] ]

\* The violations list _detect_time_conflicts builds for an entry.
TimeViolations(cs, fs, e) ==
    SelectSeq(<< "Day not in preferred days", "Time not in preferred times",
                 "Faculty unavailable" >>,
              LAMBDA v :
                  \/ /\ v = "Day not in preferred days"
                     /\ cs[e.course].preferred_days # {}
                     /\ e.day \notin cs[e.course].preferred_days
                  \/ /\ v = "Time not in preferred times"
                     /\ cs[e.course].preferred_times # {}
                     /\ e.time \notin cs[e.course].preferred_times
                  \/ /\ v = "Faculty unavailable"
                     /\ <<e.day, e.time>> \in fs[e.faculty].unavailable_slots)

\* ConflictDetector._detect_time_conflicts
DetectTimeConflicts(cs, fs, s) ==
    LET off == SelectSeq(s.entries, LAMBDA e : Len(TimeViolations(cs, fs, e)) > 0)
    IN [ k \in 1..Len(off) |->
           [ type |-> "time_constraint_violation", course_code |-> off[k].course,
             faculty_id |-> off[k].faculty, day |-> off[k].day, time |-> off[k].time,
             violations |-> TimeViolations(cs, fs, off[k]) ] ]

\* ConflictDetector._detect_room_type_conflicts
DetectRoomTypeConflicts(cs, rs, s) ==
    LET wrong == SelectSeq(s.entries, LAMBDA e :
                     /\ cs[e.course].room_type_required # ""
                     /\ rs[e.room].room_type # cs[e.course].room_type_required)
    IN [ k \in 1..Len(wrong) |->
           [ type |-> "room_type_mismatch", course_code |-> wrong[k].course,
             room_id |-> wrong[k].room,
             required_type |-> cs[wrong[k].course].room_type_required,
             actual_type |-> rs[wrong[k].room].room_type ] ]

\* The violations list _detect_preference_violations builds for an entry.
PreferenceViolations(cs, fs, e) ==
    SelectSeq(<< "Faculty day preference not met", "Faculty time preference not met",
                 "Course preferences not well satisfied" >>,
              LAMBDA v :
                  \/ /\ v = "Faculty day preference not met"
                     /\ fs[e.faculty].preferred_days # {}
                     /\ e.day \notin fs[e.faculty].preferred_days
                  \/ /\ v = "Faculty time preference not met"
                     /\ fs[e.faculty].preferred_times # {}
                     /\ e.time \notin fs[e.faculty].preferred_times
                  \/ /\ v = "Course preferences not well satisfied"
                     /\ GetConstraintScore(cs[e.course], e.day, e.time) < 80)

\* ConflictDetector._detect_preference_violations; preference_score in
\* hundredths.
DetectPreferenceViolations(cs, fs, s) ==
    LET unmet == SelectSeq(s.entries, LAMBDA e : Len(PreferenceViolations(cs, fs, e)) > 0)
    IN [ k \in 1..Len(unmet) |->
           [ type |-> "preference_violation", course_code |-> unmet[k].course,
             faculty_id |-> unmet[k].faculty,
             violations |-> PreferenceViolations(cs, fs, unmet[k]),
             preference_score |->
                 GetConstraintScore(cs[unmet[k].course], unmet[k].day, unmet[k].time) ] ]

\* ConflictDetector.detect_all_conflicts: the lists of the eight detectors.
DetectAllConflicts(cs, rs, fs, s) ==
    [ room_double_booking |-> DetectRoomConflicts(s),
      faculty_double_booking |-> DetectFacultyConflicts(s),
      capacity_exceeded |-> DetectCapacityConflicts(cs, rs, s),
      equipment_missing |-> DetectEquipmentConflicts(cs, rs, s),
      time_constraint_violation |-> DetectTimeConflicts(cs, fs, s),
      faculty_overload |-> DetectFacultyOverload(fs, s),
      room_type_mismatch |-> DetectRoomTypeConflicts(cs, rs, s),
      preference_violation |-> DetectPreferenceViolations(cs, fs, s) ]

\* The keys of the conflicts dictionary in insertion order, and
\* ConflictDetector.conflict_weights in tenths.
ConflictTypes ==
    << "room_double_booking", "faculty_double_booking", "capacity_exceeded",
       "equipment_missing", "time_constraint_violation", "faculty_overload",
       "room_type_mismatch", "preference_violation" >>

ConflictWeights ==
    [ room_double_booking |-> 10, faculty_double_booking |-> 10,
      capacity_exceeded |-> 9, equipment_missing |-> 8,
      time_constraint_violation |-> 7, faculty_overload |-> 6,
      room_type_mismatch |-> 5, preference_violation |-> 3 ]

\* ConflictDetector.calculate_conflict_score. <<>> stands for the empty
\* dictionary. max_possible_conflicts is len(Schedule().entries), the
\* number of entries of a new Schedule; the score is a fraction.
CalculateConflictScore(conflicts) ==
    LET listed == SelectSeq(ConflictTypes, LAMBDA t :
                      t \in DOMAIN conflicts /\ Len(conflicts[t]) > 0)
        total[i \in 0..Len(listed)] ==
            IF i = 0 THEN [weight |-> 0, weighted |-> 0]
            ELSE [weight |-> total[i - 1].weight + ConflictWeights[listed[i]],
                  weighted |-> total[i - 1].weighted
                                 + Len(conflicts[listed[i]]) * ConflictWeights[listed[i]]]
        total_weight == total[Len(listed)].weight
        weighted_conflicts == total[Len(listed)].weighted
        max_possible_conflicts == Len(EmptySchedule.entries)
        ratio == Frac(weighted_conflicts, 10 * max_possible_conflicts)
    IN IF DOMAIN conflicts = {} \/ total_weight = 0
       THEN [raised |-> FALSE, error |-> "none", score |-> Frac(100, 1)]
       ELSE IF max_possible_conflicts = 0
       THEN [raised |-> TRUE, error |-> "ZeroDivisionError", score |-> Frac(0, 1)]
       ELSE [raised |-> FALSE, error |-> "none",
             score |-> IF ratio.num >= ratio.den THEN Frac(0, 1)
                       ELSE FracSub(Frac(100, 1), FracMul(Frac(100, 1), ratio))]

\* ------------------------------------------------------------- behaviour
NoReport == [valid |-> TRUE, hard_violations |-> <<>>, soft_violations |-> <<>>]

Init ==
    /\ courses \in CourseLists
    /\ rooms \in RoomLists
    /\ faculty = FacultyList
    /\ availability = [r \in DOMAIN rooms |-> {}]
    /\ assigned_slots = [f \in DOMAIN faculty |-> {}]
    /\ current_teaching_hours = [f \in DOMAIN faculty |-> 0]
    /\ schedule = EmptySchedule
    /\ before = [schedule |-> EmptySchedule, pool |-> FreshPool(rooms, faculty)]
    /\ passes = <<>>
    /\ report = NoReport
    /\ last = [op |-> "new", outcome |-> "none"]

SetPool(p) ==
    /\ availability' = p.availability
    /\ assigned_slots' = p.assigned_slots
    /\ current_teaching_hours' = p.current_teaching_hours

\* A caller runs GreedyScheduler(courses, rooms, faculty).generate_schedule()
\* on the pool as it stands.
Generate ==
    /\ last.op = "new"
    /\ \E res \in {GenerateSchedule(courses, rooms, faculty, Pool)} :
       /\ schedule' = IF res.raised THEN schedule ELSE res.schedule
       /\ SetPool(res.pool)
       /\ last' = [op |-> "generate",
                   outcome |-> IF res.raised THEN res.error ELSE "returned",
                   committed |-> Len(res.schedule.entries),
                   order |-> res.order]
    /\ before' = [schedule |-> schedule, pool |-> Pool]
    /\ UNCHANGED << courses, rooms, faculty, passes, report >>

\* A caller runs GreedyScheduler(courses, rooms, faculty).generate_schedule()
\* a second time, on the same Room and Faculty objects and without a reset.
GenerateAgain ==
    /\ last.op = "generate"
    /\ last.outcome = "returned"
    /\ \E res \in {GenerateSchedule(courses, rooms, faculty, Pool)} :
       /\ schedule' = IF res.raised THEN schedule ELSE res.schedule
       /\ SetPool(res.pool)
       /\ last' = [op |-> "generate_again",
                   outcome |-> IF res.raised THEN res.error ELSE "returned",
                   committed |-> Len(res.schedule.entries),
                   order |-> res.order]
    /\ before' = [schedule |-> schedule, pool |-> Pool]
    /\ UNCHANGED << courses, rooms, faculty, passes, report >>

\* The slots a caller places hand-built entries at.
LoadSlots == { <<1, 1>>, <<2, 3>> }

\* A caller builds a schedule by hand: Schedule.add_entry(ScheduleEntry(...))
\* for a course that has no entry yet. The pool is not touched.
AddEntry ==
    /\ last.op \in {"new", "add_entry"}
    /\ Len(schedule.entries) < MaxLoaded
    /\ \E c \in DOMAIN courses, r \in DOMAIN rooms, slot \in LoadSlots :
          /\ \A j \in 1..Len(schedule.entries) : schedule.entries[j].course < c
          /\ schedule' = [schedule EXCEPT !.entries =
                 Append(@, Entry(c, r, courses[c].faculty_id, slot[1], slot[2],
                                 courses[c].duration))]
    /\ last' = [op |-> "add_entry", outcome |-> "returned"]
    /\ before' = [schedule |-> schedule, pool |-> Pool]
    /\ UNCHANGED << courses, rooms, faculty, availability, assigned_slots,
                    current_teaching_hours, passes, report >>

HasSchedule ==
    \/ last.op = "add_entry"
    \/ last.op = "generate" /\ last.outcome = "returned"

\* The values of BacktrackingOptimizer.max_iterations a run is made with:
\* the one __init__ sets, and small ones a caller has set on the instance.
Budgets == {SmallBudget, MidBudget, max_iterations}

\* A caller runs BacktrackingOptimizer(...).optimize_schedule(schedule), on
\* a schedule with entries or on a new, empty Schedule().
Backtrack ==
    /\ \/ HasSchedule
       \/ last.op = "new"
    /\ \E budget \in Budgets :
       \E res \in {OptimizeSchedule(courses, rooms, faculty, schedule, Pool, budget)} :
       /\ schedule' = res.schedule
       /\ SetPool(res.pool)
       /\ last' = [op |-> "backtrack",
                   outcome |-> IF res.placed THEN "found" ELSE "none",
                   iteration |-> res.iteration,
                   exhausted |-> res.iteration > budget,
                   budget |-> budget,
                   path |-> res.path,
                   after |-> last.op]
    /\ before' = [schedule |-> schedule, pool |-> Pool]
    /\ UNCHANGED << courses, rooms, faculty, passes, report >>

\* A caller runs ConstraintSolver(...).solve_constraints(schedule).
Solve ==
    /\ HasSchedule
    /\ \E res \in {SolveConstraints(courses, rooms, faculty, Pool, schedule)} :
       /\ schedule' = res.schedule
       /\ last' = [op |-> "solve",
                   outcome |-> IF res.solved THEN "solved" ELSE "none",
                   solution |-> [ i \in 1..Len(res.solution) |->
                                    [entry |-> res.solution[i][1],
                                     value |-> DomainValue(rooms, res.solution[i][2])] ]]
    /\ before' = [schedule |-> schedule, pool |-> Pool]
    /\ UNCHANGED << courses, rooms, faculty, availability, assigned_slots,
                    current_teaching_hours, passes, report >>

\* A caller runs ConstraintSolver(...).validate_schedule(schedule).
Validate ==
    /\ HasSchedule
    /\ report' = ValidateSchedule(courses, rooms, faculty, Pool, schedule)
    /\ last' = [op |-> "validate", outcome |-> "returned"]
    /\ before' = [schedule |-> schedule, pool |-> Pool]
    /\ UNCHANGED << courses, rooms, faculty, availability, assigned_slots,
                    current_teaching_hours, schedule, passes >>

\* A caller runs ResourceOptimizer(rooms, faculty)
\* .optimize_resource_allocation(schedule).
Optimize ==
    /\ \/ HasSchedule
       \/ last.op = "backtrack"
    /\ \E res \in {OptimizeResourceAllocation(courses, rooms, faculty, schedule, Pool)} :
       /\ schedule' = res.schedule
       /\ SetPool(res.pool)
       /\ passes' = res.passes
    /\ last' = [op |-> "optimize", outcome |-> "returned", after |-> last.op]
    /\ before' = [schedule |-> schedule, pool |-> Pool]
    /\ UNCHANGED << courses, rooms, faculty, report >>

Next ==
    \/ Generate
    \/ GenerateAgain
    \/ AddEntry
    \/ Backtrack
    \/ Solve
    \/ Validate
    \/ Optimize

Spec == Init /\ [][Next]_vars

\* ------------------------------------------- component-level behaviour
\* The components driven one at a time, on any input a caller can hand
\* them: empty collections, a dangling faculty_id, hand-built schedules.
UnitInit ==
    /\ courses \in UnitCourseLists
    /\ rooms \in UnitRoomLists
    /\ faculty \in UnitFacultyLists
    /\ availability = [r \in DOMAIN rooms |-> {}]
    /\ assigned_slots = [f \in DOMAIN faculty |-> {}]
    /\ current_teaching_hours = [f \in DOMAIN faculty |-> 0]
    /\ schedule = EmptySchedule
    /\ before = [schedule |-> EmptySchedule, pool |-> FreshPool(rooms, faculty)]
    /\ passes = <<>>
    /\ report = NoReport
    /\ last = [op |-> "new", outcome |-> "none"]

\* A caller runs SmartClassGrid.generate_schedule() on the loaded data.
EngineGenerate ==
    /\ last.op = "new"
    /\ \E res \in {EngineGenerateSchedule(courses, rooms, faculty, Pool)} :
       /\ schedule' = IF res.is_none THEN schedule ELSE res.schedule
       /\ SetPool(res.pool)
       /\ last' = [op |-> "engine_generate",
                   outcome |-> IF res.error # "none" THEN res.error
                               ELSE IF res.is_none THEN "none" ELSE "returned",
                   committed |-> Len(res.schedule.entries)]
    /\ before' = [schedule |-> schedule, pool |-> Pool]
    /\ UNCHANGED << courses, rooms, faculty, passes, report >>

\* A caller builds a schedule by hand from any course, room and faculty
\* member: Schedule.add_entry(ScheduleEntry(...)). The pool is not touched.
BuildEntry ==
    /\ last.op \in {"new", "add_entry"}
    /\ Len(schedule.entries) < MaxBuilt
    /\ \E c \in DOMAIN courses, r \in DOMAIN rooms, f \in DOMAIN faculty,
          slot \in LoadSlots :
          schedule' = [schedule EXCEPT !.entries =
              Append(@, Entry(c, r, f, slot[1], slot[2], courses[c].duration))]
    /\ last' = [op |-> "add_entry", outcome |-> "returned"]
    /\ before' = [schedule |-> schedule, pool |-> Pool]
    /\ UNCHANGED << courses, rooms, faculty, availability, assigned_slots,
                    current_teaching_hours, passes, report >>

\* A caller runs ConflictDetector().detect_all_conflicts(schedule).
Detect ==
    /\ \/ HasSchedule
       \/ last.op = "new"
    /\ report' = DetectAllConflicts(courses, rooms, faculty, schedule)
    /\ last' = [op |-> "detect", outcome |-> "returned"]
    /\ before' = [schedule |-> schedule, pool |-> Pool]
    /\ UNCHANGED << courses, rooms, faculty, availability, assigned_slots,
                    current_teaching_hours, schedule, passes >>

\* A caller records a failed course on a hand-built schedule, as the
\* schedulers do: schedule.conflicts.append("Could not schedule course ...").
AddConflict ==
    /\ last.op \in {"new", "add_entry", "add_conflict"}
    /\ Len(schedule.conflicts) < MaxConflicts
    /\ Len(schedule.entries) < MaxLoaded
    /\ \E c \in DOMAIN courses :
          schedule' = [schedule EXCEPT !.conflicts = Append(@, CouldNotSchedule(c))]
    /\ last' = [op |-> "add_conflict", outcome |-> "returned"]
    /\ before' = [schedule |-> schedule, pool |-> Pool]
    /\ UNCHANGED << courses, rooms, faculty, availability, assigned_slots,
                    current_teaching_hours, passes, report >>

\* A caller runs schedule.calculate_metrics() on a hand-built schedule.
Metrics ==
    /\ last.op \in {"new", "add_entry", "add_conflict"}
    /\ schedule' = CalculateMetrics(schedule)
    /\ last' = [op |-> "calculate_metrics", outcome |-> "returned"]
    /\ before' = [schedule |-> schedule, pool |-> Pool]
    /\ UNCHANGED << courses, rooms, faculty, availability, assigned_slots,
                    current_teaching_hours, passes, report >>

\* The slots a caller reserves and assigns directly: the hand-built ones,
\* the hour after the first, and the last hour of a day.
PoolSlots == LoadSlots \cup { <<1, 2>>, <<1, NumTimes>> }

\* The number of direct reserve_slot / assign_slot calls made so far.
PoolCalls == IF last.op \in {"reserve_slot", "assign_slot"} THEN last.calls ELSE 0

\* A caller runs room.reserve_slot(day, time, duration) on a room of the
\* pool.
Reserve ==
    /\ last.op \in {"new", "reserve_slot", "assign_slot"}
    /\ PoolCalls < MaxLoaded
    /\ \E r \in DOMAIN rooms, slot \in PoolSlots, d \in 1..LabDuration :
          /\ SetPool(ReserveSlot(Pool, r, slot[1], slot[2], d))
          /\ last' = [op |-> "reserve_slot", outcome |-> "returned", id |-> r,
                      day |-> slot[1], time |-> slot[2], duration |-> d,
                      calls |-> PoolCalls + 1]
    /\ before' = [schedule |-> schedule, pool |-> Pool]
    /\ UNCHANGED << courses, rooms, faculty, schedule, passes, report >>

\* A caller runs faculty.assign_slot(day, time, duration) on a faculty
\* member of the pool.
Assign ==
    /\ last.op \in {"new", "reserve_slot", "assign_slot"}
    /\ PoolCalls < MaxLoaded
    /\ \E f \in DOMAIN faculty, slot \in PoolSlots, d \in 1..LabDuration :
          /\ SetPool(AssignSlot(Pool, f, slot[1], slot[2], d))
          /\ last' = [op |-> "assign_slot", outcome |-> "returned", id |-> f,
                      day |-> slot[1], time |-> slot[2], duration |-> d,
                      calls |-> PoolCalls + 1]
    /\ before' = [schedule |-> schedule, pool |-> Pool]
    /\ UNCHANGED << courses, rooms, faculty, schedule, passes, report >>

\* The number of calculate_resource_metrics calls made in a row so far.
MetricsCalls == IF last.op = "resource_metrics" THEN last.calls ELSE 0

\* A caller runs ResourceOptimizer(rooms, faculty)
\* .calculate_resource_metrics(schedule), once or again on the same schedule.
ResourceMetrics ==
    /\ \/ HasSchedule
       \/ last.op \in {"new", "resource_metrics"}
    /\ MetricsCalls < MaxLoaded
    /\ \E res \in {CalculateResourceMetrics(courses, rooms, faculty, schedule, Pool)} :
       /\ report' = res.metrics
       /\ schedule' = res.schedule
       /\ SetPool(res.pool)
       /\ last' = [op |-> "resource_metrics", outcome |-> "returned",
                   calls |-> MetricsCalls + 1,
                   previous |-> IF MetricsCalls = 0 THEN res.metrics ELSE report]
    /\ before' = [schedule |-> schedule, pool |-> Pool]
    /\ UNCHANGED << courses, rooms, faculty, passes >>

\* A caller runs ConflictDetector().calculate_conflict_score(conflicts) on
\* the mapping detect_all_conflicts returned, or on an empty dictionary.
ConflictScore ==
    /\ last.op \in {"new", "detect"}
    /\ \E res \in {CalculateConflictScore(IF last.op = "detect" THEN report ELSE <<>>)} :
          last' = [op |-> "conflict_score",
                   outcome |-> IF res.raised THEN res.error ELSE "returned",
                   score |-> res.score,
                   after |-> last.op]
    /\ before' = [schedule |-> schedule, pool |-> Pool]
    /\ UNCHANGED << courses, rooms, faculty, availability, assigned_slots,
                    current_teaching_hours, schedule, passes, report >>

UnitNext ==
    \/ Generate
    \/ EngineGenerate
    \/ BuildEntry
    \/ AddConflict
    \/ Metrics
    \/ Detect
    \/ Reserve
    \/ Assign
    \/ ResourceMetrics
    \/ ConflictScore

UnitSpec == UnitInit /\ [][UnitNext]_vars

\* ---------------------------------------------- detector runs in depth
\* ConflictDetector().detect_all_conflicts(schedule) on hand-built schedules
\* whose entries start at neighbouring hours of one day, so that the
\* windows of two-hour entries overlap.
NeighbouringSlots == { <<1, 1>>, <<1, 2>>, <<1, 3>> }

DetectorInit ==
    /\ courses \in SolverCourseLists
    /\ rooms \in SolverRoomLists
    /\ faculty = FacultyList
    /\ availability = [r \in DOMAIN rooms |-> {}]
    /\ assigned_slots = [f \in DOMAIN faculty |-> {}]
    /\ current_teaching_hours = [f \in DOMAIN faculty |-> 0]
    /\ schedule = EmptySchedule
    /\ before = [schedule |-> EmptySchedule, pool |-> FreshPool(rooms, faculty)]
    /\ passes = <<>>
    /\ report = NoReport
    /\ last = [op |-> "new", outcome |-> "none"]

\* A caller builds a schedule by hand, as in BuildEntry, at neighbouring
\* hours.
BuildNeighbour ==
    /\ last.op \in {"new", "add_entry"}
    /\ Len(schedule.entries) < MaxBuilt
    /\ \E c \in DOMAIN courses, r \in DOMAIN rooms, f \in DOMAIN faculty,
          slot \in NeighbouringSlots :
          schedule' = [schedule EXCEPT !.entries =
              Append(@, Entry(c, r, f, slot[1], slot[2], courses[c].duration))]
    /\ last' = [op |-> "add_entry", outcome |-> "returned"]
    /\ before' = [schedule |-> schedule, pool |-> Pool]
    /\ UNCHANGED << courses, rooms, faculty, availability, assigned_slots,
                    current_teaching_hours, passes, report >>

DetectorNext ==
    \/ BuildNeighbour
    \/ Detect

DetectorSpec == DetectorInit /\ [][DetectorNext]_vars

\* ------------------------------------------------- greedy runs in depth
\* GreedyScheduler(courses, rooms, faculty).generate_schedule() on fresh
\* rooms and faculty, for course lists of up to MaxOrdered courses.
GreedyInit ==
    /\ courses \in OrderedCourseLists
    /\ rooms \in OrderedRoomLists
    /\ faculty \in OrderedFacultyLists
    /\ availability = [r \in DOMAIN rooms |-> {}]
    /\ assigned_slots = [f \in DOMAIN faculty |-> {}]
    /\ current_teaching_hours = [f \in DOMAIN faculty |-> 0]
    /\ schedule = EmptySchedule
    /\ before = [schedule |-> EmptySchedule, pool |-> FreshPool(rooms, faculty)]
    /\ passes = <<>>
    /\ report = NoReport
    /\ last = [op |-> "new", outcome |-> "none"]

GreedyNext == Generate

GreedySpec == GreedyInit /\ [][GreedyNext]_vars

\* ------------------------------------------- optimizer runs in depth
\* ResourceOptimizer(rooms, faculty).optimize_resource_allocation(schedule)
\* on hand-built schedules and on the schedules BacktrackingOptimizer
\* returns, whose entries are applied to the rooms and faculty.
OptimizerInit ==
    /\ courses \in OptimizerCourseLists
    /\ rooms \in OptimizerRoomLists
    /\ faculty \in OptimizerFacultyLists
    /\ availability = [r \in DOMAIN rooms |-> {}]
    /\ assigned_slots = [f \in DOMAIN faculty |-> {}]
    /\ current_teaching_hours = [f \in DOMAIN faculty |-> 0]
    /\ schedule = EmptySchedule
    /\ before = [schedule |-> EmptySchedule, pool |-> FreshPool(rooms, faculty)]
    /\ passes = <<>>
    /\ report = NoReport
    /\ last = [op |-> "new", outcome |-> "none"]

OptimizerNext ==
    \/ AddEntry
    \/ Backtrack
    \/ Optimize

OptimizerSpec == OptimizerInit /\ [][OptimizerNext]_vars

\* ---------------------------------------------- solver runs in depth
\* The steps of ConstraintSolver.solve_constraints run one at a time on a
\* hand-built schedule, with the rooms and faculty booked in between or
\* not.
SolverInit ==
    /\ courses \in SolverCourseLists
    /\ rooms \in SolverRoomLists
    /\ faculty = FacultyList
    /\ availability = [r \in DOMAIN rooms |-> {}]
    /\ assigned_slots = [f \in DOMAIN faculty |-> {}]
    /\ current_teaching_hours = [f \in DOMAIN faculty |-> 0]
    /\ schedule = EmptySchedule
    /\ before = [schedule |-> EmptySchedule, pool |-> FreshPool(rooms, faculty)]
    /\ passes = <<>>
    /\ report = NoReport
    /\ last = [op |-> "new", outcome |-> "none"]

\* A caller runs ConstraintSolver(...)._create_csp_variables(schedule); the
\* variables are kept in report.
CreateVariables ==
    /\ HasSchedule
    /\ report' = CreateCspVariables(courses, rooms, faculty, Pool, schedule)
    /\ last' = [op |-> "create_csp_variables", outcome |-> "returned", booked |-> FALSE]
    /\ before' = [schedule |-> schedule, pool |-> Pool]
    /\ UNCHANGED << courses, rooms, faculty, availability, assigned_slots,
                    current_teaching_hours, schedule, passes >>

\* Once the variables are built, a caller runs room.reserve_slot(day, time,
\* duration) on a room of the pool.
ReserveLater ==
    /\ last.op = "create_csp_variables"
    /\ ~last.booked
    /\ \E r \in DOMAIN rooms, slot \in LoadSlots, d \in 1..LabDuration :
          SetPool(ReserveSlot(Pool, r, slot[1], slot[2], d))
    /\ last' = [last EXCEPT !.booked = TRUE]
    /\ UNCHANGED << courses, rooms, faculty, schedule, before, passes, report >>

\* Once the variables are built, a caller runs faculty.assign_slot(day,
\* time, duration) on a faculty member of the pool.
AssignLater ==
    /\ last.op = "create_csp_variables"
    /\ ~last.booked
    /\ \E f \in DOMAIN faculty, slot \in LoadSlots, d \in 1..LabDuration :
          SetPool(AssignSlot(Pool, f, slot[1], slot[2], d))
    /\ last' = [last EXCEPT !.booked = TRUE]
    /\ UNCHANGED << courses, rooms, faculty, schedule, before, passes, report >>

\* A caller runs _constraint_propagation(variables) on the variables built
\* before.
Propagate ==
    /\ last.op = "create_csp_variables"
    /\ report' = ConstraintPropagation(courses, rooms, faculty, Pool, report)
    /\ last' = [op |-> "constraint_propagation", outcome |-> "returned",
                booked |-> last.booked,
                sweeps |-> PropagationSweeps(courses, rooms, faculty, Pool, report)]
    /\ before' = [schedule |-> schedule, pool |-> Pool, variables |-> report]
    /\ UNCHANGED << courses, rooms, faculty, availability, assigned_slots,
                    current_teaching_hours, schedule, passes >>

SolverNext ==
    \/ AddEntry
    \/ CreateVariables
    \/ ReserveLater
    \/ AssignLater
    \/ Propagate

SolverSpec == SolverInit /\ [][SolverNext]_vars

\* ------------------------------------------------------------ properties
\* Two entries start in the same room, or with the same faculty, at the
\* same day and time.
SameRoomSlot(a, b) == a.room = b.room /\ a.day = b.day /\ a.time = b.time

SameFacultySlot(a, b) == a.faculty = b.faculty /\ a.day = b.day /\ a.time = b.time

NoDoubleBooking(s) ==
    \A i, j \in 1..Len(s.entries) :
        i < j => /\ ~SameRoomSlot(s.entries[i], s.entries[j])
                 /\ ~SameFacultySlot(s.entries[i], s.entries[j])

\* The pool holds exactly the slots and hours of the schedule's entries.
PoolReflects(p, s) ==
    /\ \A r \in DOMAIN rooms :
          p.availability[r] =
              UNION { { <<s.entries[i].day, t>> :
                          t \in Window(s.entries[i].time, s.entries[i].duration) }
                      : i \in { j \in 1..Len(s.entries) : s.entries[j].room = r } }
    /\ \A f \in DOMAIN faculty :
          /\ p.assigned_slots[f] =
                 UNION { { <<s.entries[i].day, t>> :
                             t \in Window(s.entries[i].time, s.entries[i].duration) }
                         : i \in { j \in 1..Len(s.entries) : s.entries[j].faculty = f } }
          /\ p.current_teaching_hours[f] = FacultyLoad(s.entries, f)

CapacityRespected(s) ==
    \A i \in 1..Len(s.entries) :
        rooms[s.entries[i].room].capacity >= courses[s.entries[i].course].capacity

\* C1: every schedule generate_schedule returns on a fresh pool has no two
\* entries starting in the same room at the same day and time, and no two
\* entries of the same faculty starting at the same day and time.
C1_GreedyNoDoubleBooking ==
    (/\ last.op = "generate"
     /\ last.outcome = "returned"
     /\ before.pool = FreshPool(rooms, faculty))
    => NoDoubleBooking(schedule)

\* Greedy placed two courses of one faculty in one room on one day.
C1_Witness ==
    /\ last.op = "generate"
    /\ last.outcome = "returned"
    /\ before.pool = FreshPool(rooms, faculty)
    /\ \E i, j \in 1..Len(schedule.entries) :
          /\ i < j
          /\ schedule.entries[i].room = schedule.entries[j].room
          /\ schedule.entries[i].faculty = schedule.entries[j].faculty
          /\ schedule.entries[i].day = schedule.entries[j].day

\* C2: if the input schedule has no double booking and the pool reflects
\* exactly its entries, the schedule optimize_resource_allocation returns
\* after its four passes has no double booking.
C2_OptimizerNoDoubleBooking ==
    (/\ last.op = "optimize"
     /\ NoDoubleBooking(before.schedule)
     /\ PoolReflects(before.pool, before.schedule))
    => NoDoubleBooking(schedule)

\* C3: with the iteration budget not exhausted, optimize_schedule returns
\* at least as many entries as the input schedule holds, also when an
\* unscheduled course has no feasible placement.
C3_BacktrackingMonotonic ==
    (/\ last.op = "backtrack"
     /\ ~last.exhausted)
    => Len(schedule.entries) >= Len(before.schedule.entries)

\* C4: when the CSP search finds a complete consistent assignment, the
\* returned schedule has one entry per input entry, for the same course at
\* the room, day and time the search assigned, and no double booking.
C4_SolutionBecomesSchedule ==
    (/\ last.op = "solve"
     /\ last.outcome = "solved")
    => /\ Len(schedule.entries) = Len(before.schedule.entries)
       /\ \A i \in 1..Len(last.solution) :
             \E j \in 1..Len(schedule.entries) :
                /\ schedule.entries[j].course =
                       before.schedule.entries[last.solution[i].entry].course
                /\ schedule.entries[j].room = last.solution[i].value.room
                /\ schedule.entries[j].day = last.solution[i].value.day
                /\ schedule.entries[j].time = last.solution[i].value.time
       /\ NoDoubleBooking(schedule)

\* C5: whenever validate_schedule reports valid = true, every faculty's
\* entries sum to at most the faculty's max_teaching_hours, whatever the
\* pool holds at the time of the call.
C5_ValidImpliesHourCap ==
    (/\ last.op = "validate"
     /\ report.valid)
    => \A f \in DOMAIN faculty :
          FacultyLoad(schedule.entries, f) <= faculty[f].max_teaching_hours

\* C6: if the input schedule has no double booking, the schedule
\* optimize_schedule returns has none either, over the carried-over and
\* the newly placed entries together.
C6_BacktrackingNoDoubleBooking ==
    (/\ last.op = "backtrack"
     /\ NoDoubleBooking(before.schedule))
    => NoDoubleBooking(schedule)

\* Backtracking kept an entry and placed a new one of the same faculty in
\* the same room on the same day.
C6_Witness ==
    /\ last.op = "backtrack"
    /\ last.outcome = "found"
    /\ NoDoubleBooking(before.schedule)
    /\ Len(before.schedule.entries) >= 1
    /\ Len(schedule.entries) > Len(before.schedule.entries)
    /\ \E i \in 1..Len(before.schedule.entries) :
       \E j \in (Len(before.schedule.entries) + 1)..Len(schedule.entries) :
          /\ schedule.entries[i] = before.schedule.entries[i]
          /\ schedule.entries[j].room = schedule.entries[i].room
          /\ schedule.entries[j].faculty = schedule.entries[i].faculty
          /\ schedule.entries[j].day = schedule.entries[i].day

\* C7: every entry of a schedule generate_schedule produces sits in a room
\* at least as large as its course, and optimize_schedule and each of the
\* four passes of optimize_resource_allocation preserve that.
C7_CapacityRespected ==
    /\ (last.op = "generate" /\ last.outcome = "returned")
          => CapacityRespected(schedule)
    /\ (last.op = "backtrack" /\ CapacityRespected(before.schedule))
          => CapacityRespected(schedule)
    /\ (last.op = "optimize" /\ CapacityRespected(before.schedule))
          => \A k \in 1..Len(passes) : CapacityRespected(passes[k])

\* After greedy or backtracking filled the schedule, the room utilization
\* pass moved an entry to another room.
C7_Witness ==
    /\ last.op = "optimize"
    /\ last.after \in {"generate", "backtrack"}
    /\ CapacityRespected(before.schedule)
    /\ \E i \in 1..Len(before.schedule.entries) :
          /\ Len(passes[1].entries) = Len(before.schedule.entries)
          /\ passes[1].entries[i].course = before.schedule.entries[i].course
          /\ passes[1].entries[i].room # before.schedule.entries[i].room

\* C8: when no candidate succeeds for some unscheduled course,
\* optimize_schedule returns a schedule that still holds every entry of the
\* input schedule unchanged.
C8_PartialResultKeepsEntries ==
    (/\ last.op = "backtrack"
     /\ last.outcome = "none")
    => \A i \in 1..Len(before.schedule.entries) :
          \E j \in 1..Len(schedule.entries) :
             schedule.entries[j] = before.schedule.entries[i]

\* C9: if the pool reflects exactly the input schedule before
\* optimize_resource_allocation, it reflects exactly the returned schedule
\* after it.
C9_PoolFollowsOptimizer ==
    (/\ last.op = "optimize"
     /\ PoolReflects(before.pool, before.schedule))
    => PoolReflects(Pool, schedule)

\* C10: generate_schedule never raises and leaves every input course
\* exactly once, as one entry or as one conflict string; one course of
\* capacity 30 with only a room of capacity 20 gives 0 entries, 1 conflict
\* naming the course and accuracy_score 0.0.
C10_EveryCourseAccountedFor ==
    last.op = "generate"
    => /\ last.outcome = "returned"
       /\ \A c \in DOMAIN courses :
             Cardinality({ i \in 1..Len(schedule.entries) :
                             schedule.entries[i].course = c })
             + Cardinality({ i \in 1..Len(schedule.conflicts) :
                               schedule.conflicts[i] = CouldNotSchedule(c) }) = 1
       /\ (/\ Len(courses) = 1
           /\ courses[1].capacity = 30
           /\ Len(rooms) = 1
           /\ rooms[1].capacity = 20)
          => /\ schedule.entries = <<>>
             /\ schedule.conflicts = << CouldNotSchedule(1) >>
             /\ schedule.accuracy_score.num = 0

\* The pool that holds exactly the slots and hours of the given entries.
EntriesPool(entries) ==
    [ availability |->
        [ r \in DOMAIN rooms |->
            UNION { { <<entries[i].day, t>> : t \in Window(entries[i].time, entries[i].duration) }
                    : i \in { j \in 1..Len(entries) : entries[j].room = r } } ],
      assigned_slots |->
        [ f \in DOMAIN faculty |->
            UNION { { <<entries[i].day, t>> : t \in Window(entries[i].time, entries[i].duration) }
                    : i \in { j \in 1..Len(entries) : entries[j].faculty = f } } ],
      current_teaching_hours |->
        [ f \in DOMAIN faculty |-> FacultyLoad(entries, f) ] ]

\* The pool greedy holds when the i-th course of its processing order gets
\* its turn: the fresh pool plus the entries of the courses before it.
TurnPool(order, i) ==
    EntriesPool(SelectSeq(schedule.entries,
                    LAMBDA e : \E j \in 1..(i - 1) : order[j] = e.course))

\* The triples that pass the hard filters for course c against pool p.
PassingTriples(p, c) ==
    { k \in 1..NumTriples(rooms) :
        IsValidAssignment(courses, rooms, faculty, p, c, Triple(rooms, k).room,
                          Triple(rooms, k).day, Triple(rooms, k).time) }

\* C11: greedy reports a course as unscheduled only if no (day, time, room)
\* triple passes the hard filters when its turn comes, and otherwise commits
\* exactly one entry for it; one course with a fitting free room and a free
\* faculty gives 1 entry, 0 conflicts and accuracy_score 100.0.
C11_UnscheduledOnlyWithoutCandidate ==
    (/\ last.op = "generate"
     /\ last.outcome = "returned")
    => LET order == PrioritizeCourses(courses).heap IN
       /\ \A i \in 1..Len(order) :
             LET c == order[i]
                 mine == { j \in 1..Len(schedule.entries) : schedule.entries[j].course = c }
                 reported == \E j \in 1..Len(schedule.conflicts) :
                                 schedule.conflicts[j] = CouldNotSchedule(c)
                 passing == PassingTriples(TurnPool(order, i), c)
             IN /\ reported => passing = {}
                /\ passing # {} => Cardinality(mine) = 1 /\ ~reported
       /\ (/\ Len(courses) = 1
           /\ PassingTriples(FreshPool(rooms, faculty), 1) # {})
          => /\ Len(schedule.entries) = 1
             /\ schedule.conflicts = <<>>
             /\ schedule.accuracy_score.num = 100 * schedule.accuracy_score.den

\* Greedy placed one course and, on its turn, found no triple for another.
C11_Witness ==
    /\ last.op = "generate"
    /\ last.outcome = "returned"
    /\ Len(schedule.entries) = 1
    /\ Len(schedule.conflicts) = 1
    /\ PassingTriples(FreshPool(rooms, faculty), schedule.conflicts[1].code) # {}

\* Some input collection is empty or a course names a faculty that is not
\* in the faculty list.
InvalidInput ==
    \/ courses = <<>>
    \/ rooms = <<>>
    \/ faculty = <<>>
    \/ \E c \in DOMAIN courses : courses[c].faculty_id \notin DOMAIN faculty

\* C12: on an empty input collection or a dangling faculty_id the engine
\* fails with an error before any algorithm step: nothing has been
\* committed to the schedule and the pool is as it was.
C12_InvalidInputFailsFast ==
    (/\ last.op \in {"generate", "engine_generate"}
     /\ InvalidInput)
    => /\ last.outcome \in {"ValueError", "KeyError", "TypeError"}
       /\ last.committed = 0
       /\ Pool = before.pool

\* The number of positions of seq that hold x.
Count(seq, x) == Cardinality({ k \in 1..Len(seq) : seq[k] = x })

\* The entries of the schedule held at the given place (a room or a
\* faculty member, per the flag) at a day and time.
GroupAt(of_room, id, day, time) ==
    { j \in 1..Len(schedule.entries) :
        /\ (IF of_room THEN schedule.entries[j].room ELSE schedule.entries[j].faculty) = id
        /\ schedule.entries[j].day = day
        /\ schedule.entries[j].time = time }

\* The records of a double-booking list are exactly one per group of more
\* than one entry, each listing the course codes of its whole group.
OneRecordPerGroup(records, of_room, ids) ==
    /\ \A id \in ids, day \in Days, time \in Times :
          LET group == GroupAt(of_room, id, day, time)
              mine == { k \in 1..Len(records) :
                          /\ (IF of_room THEN records[k].room_id
                              ELSE records[k].faculty_id) = id
                          /\ records[k].day = day
                          /\ records[k].time = time }
          IN /\ Cardinality(mine) = IF Cardinality(group) > 1 THEN 1 ELSE 0
             /\ \A k \in mine :
                   /\ Len(records[k].conflicting_courses) = Cardinality(group)
                   /\ \A c \in DOMAIN courses :
                         Count(records[k].conflicting_courses, c)
                             = Cardinality({ j \in group : schedule.entries[j].course = c })
    /\ \A k \in 1..Len(records) :
          (IF of_room THEN records[k].room_id ELSE records[k].faculty_id) \in ids

\* C13: the detector returns exactly one room_double_booking record per
\* (room, day, time) group of more than one entry and one
\* faculty_double_booking record per such (faculty, day, time) group, each
\* listing all course codes of its group, and none for groups of one.
C13_OneRecordPerDoubleBooking ==
    last.op = "detect"
    => /\ OneRecordPerGroup(report.room_double_booking, TRUE, DOMAIN rooms)
       /\ OneRecordPerGroup(report.faculty_double_booking, FALSE, DOMAIN faculty)

\* Three entries share a room slot, two of them the faculty member too, and
\* the detector has answered.
C13_Witness ==
    /\ last.op = "detect"
    /\ Len(schedule.entries) = 3
    /\ Len(report.room_double_booking) = 1
    /\ Len(report.room_double_booking[1].conflicting_courses) = 3
    /\ Len(report.faculty_double_booking) = 1
    /\ Len(report.faculty_double_booking[1].conflicting_courses) = 2

\* The faculty members whose summed entry durations exceed their
\* max_teaching_hours.
Overloaded ==
    { f \in DOMAIN faculty :
        FacultyLoad(schedule.entries, f) > faculty[f].max_teaching_hours }

\* C14: the faculty_overload list has exactly one record for each faculty
\* member whose summed durations exceed max_teaching_hours, however many are
\* overloaded and however many entries each has, and none for the others.
C14_OneOverloadRecordPerFaculty ==
    last.op = "detect"
    => \A f \in DOMAIN faculty :
          Cardinality({ k \in 1..Len(report.faculty_overload) :
                          report.faculty_overload[k].faculty_id = f })
              = IF f \in Overloaded THEN 1 ELSE 0

\* C15: in the schedule greedy returns for a fresh pool, and in the
\* schedule backtracking returns for it, every faculty member's
\* current_teaching_hours equals the summed durations of their entries and
\* does not exceed max_teaching_hours.
C15_HoursMatchEntries ==
    (\/ /\ last.op = "generate"
        /\ last.outcome = "returned"
        /\ before.pool = FreshPool(rooms, faculty)
     \/ /\ last.op = "backtrack"
        /\ last.after = "generate")
    => \A f \in DOMAIN faculty :
          /\ current_teaching_hours[f] = FacultyLoad(schedule.entries, f)
          /\ current_teaching_hours[f] <= faculty[f].max_teaching_hours

\* The entries of the returned schedule are the input entries followed by
\* one entry each for courses that had none.
ExtendsInput ==
    /\ Len(schedule.entries) >= Len(before.schedule.entries)
    /\ SubSeq(schedule.entries, 1, Len(before.schedule.entries)) = before.schedule.entries
    /\ \A j \in (Len(before.schedule.entries) + 1)..Len(schedule.entries) :
          /\ \A i \in 1..Len(schedule.entries) :
                i # j => schedule.entries[i].course # schedule.entries[j].course
          /\ schedule.entries[j] = last.path[j]

\* C16: when the _backtrack_optimize calls exceed max_iterations,
\* optimize_schedule does not raise and returns all input entries plus the
\* assignments accumulated on the current search path, with every course
\* still unplaced listed in conflicts.
C16_ExhaustedBudgetReturnsPath ==
    (/\ last.op = "backtrack"
     /\ last.exhausted)
    => /\ last.outcome = "found"
       /\ ExtendsInput
       /\ \A c \in DOMAIN courses :
             (\A j \in 1..Len(schedule.entries) : schedule.entries[j].course # c)
             => \E k \in 1..Len(schedule.conflicts) :
                   schedule.conflicts[k] = CouldNotSchedule(c)

\* The budget ran out with one course placed on the path and another not
\* yet reached.
C16_Witness ==
    /\ last.op = "backtrack"
    /\ last.exhausted
    /\ Len(schedule.entries) > Len(before.schedule.entries)
    /\ Len(schedule.conflicts) > 0

\* C17: when the search finds no complete consistent assignment,
\* solve_constraints returns the input schedule itself, entries and
\* conflicts unchanged, never a partially repaired one.
C17_FailedSearchReturnsInput ==
    (/\ last.op = "solve"
     /\ last.outcome = "none")
    => schedule = before.schedule

\* The search failed on a schedule of two entries, one of which has
\* candidate values and one of which has none.
C17_Witness ==
    /\ last.op = "solve"
    /\ last.outcome = "none"
    /\ Len(schedule.entries) = 2
    /\ LET variables == ConstraintPropagation(courses, rooms, faculty, Pool,
                            CreateCspVariables(courses, rooms, faculty, Pool, schedule))
       IN \E i, j \in 1..2 : /\ Len(variables[i].domain) > 0
                             /\ Len(variables[j].domain) = 0

\* C18: after calculate_metrics, 0 <= accuracy_score <= 100 whatever the
\* numbers of entries and conflicts, and accuracy_score is 0.0 for a
\* schedule without entries.
C18_AccuracyWithinRange ==
    (\/ last.op = "calculate_metrics"
     \/ last.op = "generate" /\ last.outcome = "returned")
    => /\ schedule.accuracy_score.num >= 0
       /\ schedule.accuracy_score.num <= 100 * schedule.accuracy_score.den
       /\ schedule.entries = <<>> => schedule.accuracy_score.num = 0

\* The hours [time, time + duration), not cut at the end of the day.
Hours(time, duration) == { time + i : i \in 0..(duration - 1) }

\* C19: a fresh Room is available for every window that fits inside a day;
\* after reserve_slot(day, time, d), is_available(day, t, d2) is false for
\* every window [t, t + d2) that intersects [time, time + d), and every slot
\* outside the reserved window is as it was.
C19_ReservedWindowIsTaken ==
    /\ \A r \in DOMAIN rooms :
          availability[r] = {}
          => \A day \in Days, t \in Times, d2 \in 1..(LabDuration + 1) :
                t + d2 - 1 <= NumTimes => RoomIsAvailable(Pool, r, day, t, d2)
    /\ last.op = "reserve_slot"
       => /\ \A t \in Times, d2 \in 1..(LabDuration + 1) :
                Hours(t, d2) \cap Hours(last.time, last.duration) # {}
                => ~RoomIsAvailable(Pool, last.id, last.day, t, d2)
          /\ \A r \in DOMAIN rooms, day \in Days, t \in Times :
                ~(r = last.id /\ day = last.day /\ t \in Hours(last.time, last.duration))
                => (<<day, t>> \in availability[r]
                        <=> <<day, t>> \in before.pool.availability[r])

\* A second reservation, of more than one hour, was made in a room that
\* already had a reserved slot.
C19_Witness ==
    /\ last.op = "reserve_slot"
    /\ last.duration > 1
    /\ before.pool.availability[last.id] # {}
    /\ availability[last.id] # before.pool.availability[last.id]

\* The first two parts of C20: the hours grew by exactly the duration and
\* the faculty member is unavailable at every hour of the assigned window.
AssignedWindowIsTaken ==
    /\ current_teaching_hours[last.id]
           = before.pool.current_teaching_hours[last.id] + last.duration
    /\ \A t \in Window(last.time, last.duration) :
          ~FacultyIsAvailable(faculty, Pool, last.id, last.day, t, 1)

\* The faculty member of the last assign_slot call had no unavailable slots
\* and enough remaining hours for the window before the call.
FreeAndWithinHours ==
    /\ faculty[last.id].unavailable_slots = {}
    /\ before.pool.current_teaching_hours[last.id] + last.duration
           <= faculty[last.id].max_teaching_hours

\* C20 as stated: after assign_slot(day, time, d) the hours have grown by
\* exactly d and is_available(day, t, 1) is false for every hour t of the
\* window; before the assignment a faculty member with no unavailable slots
\* and enough remaining hours is available for that window.
C20_AssignedWindowIsTaken ==
    last.op = "assign_slot"
    => /\ AssignedWindowIsTaken
       /\ FreeAndWithinHours
          => FacultyIsAvailable(faculty, before.pool, last.id, last.day, last.time,
                                last.duration)

\* C20, amended: the availability before the assignment also needs the
\* start hour of the window not to be assigned already.
C20_AssignedWindowIsTakenIfStartFree ==
    last.op = "assign_slot"
    => /\ AssignedWindowIsTaken
       /\ (/\ FreeAndWithinHours
           /\ <<last.day, last.time>> \notin before.pool.assigned_slots[last.id])
          => FacultyIsAvailable(faculty, before.pool, last.id, last.day, last.time,
                                last.duration)

\* A faculty member without unavailable slots, free at the start hour and
\* with enough hours left, was assigned a window of more than one hour.
C20_Witness ==
    /\ last.op = "assign_slot"
    /\ last.duration > 1
    /\ FreeAndWithinHours
    /\ <<last.day, last.time>> \notin before.pool.assigned_slots[last.id]
    /\ Cardinality(assigned_slots[last.id])
           = Cardinality(before.pool.assigned_slots[last.id]) + last.duration

\* C21: every entry of a schedule generate_schedule returns references a
\* course of the input list, a room of the input list and the faculty member
\* whose id is the course's faculty_id, with a day of Monday..Friday, a time
\* of the ten hourly slots and the course's duration.
C21_EntriesReferenceInput ==
    (/\ last.op = "generate"
     /\ last.outcome = "returned")
    => \A i \in 1..Len(schedule.entries) :
          LET e == schedule.entries[i] IN
          /\ e.course \in DOMAIN courses
          /\ e.room \in DOMAIN rooms
          /\ e.faculty \in DOMAIN faculty
          /\ e.faculty = courses[e.course].faculty_id
          /\ e.day \in Days
          /\ e.time \in Times
          /\ e.duration = courses[e.course].duration

\* Greedy returned a lab and a lecture of two different faculty members.
C21_Witness ==
    /\ last.op = "generate"
    /\ last.outcome = "returned"
    /\ \E i, j \in 1..Len(schedule.entries) :
          /\ schedule.entries[i].faculty # schedule.entries[j].faculty
          /\ schedule.entries[i].duration = LabDuration
          /\ schedule.entries[j].duration = 1

C23_FacultyFreeForDuration ==
    (/\ last.op = "generate"
     /\ last.outcome = "returned")
    => /\ \A i, j \in 1..Len(schedule.entries) :
             (/\ i < j
              /\ schedule.entries[i].faculty = schedule.entries[j].faculty
              /\ schedule.entries[i].day = schedule.entries[j].day)
             => Hours(schedule.entries[i].time, schedule.entries[i].duration)
                  \cap Hours(schedule.entries[j].time, schedule.entries[j].duration) = {}
       /\ \A i \in 1..Len(schedule.entries) :
             \A t \in Hours(schedule.entries[i].time, schedule.entries[i].duration) :
                <<schedule.entries[i].day, t>>
                    \notin faculty[schedule.entries[i].faculty].unavailable_slots

\* C24: in every schedule generate_schedule produces the room is free for
\* the full duration of each entry: every hour of [start, start + duration)
\* exists in the ten-slot day grid, so no course runs past the last slot, and
\* no two entries in one room on one day cover a common hour.
C24_RoomFreeForDuration ==
    (/\ last.op = "generate"
     /\ last.outcome = "returned")
    => /\ \A i \in 1..Len(schedule.entries) :
             Hours(schedule.entries[i].time, schedule.entries[i].duration) \subseteq Times
       /\ \A i, j \in 1..Len(schedule.entries) :
             (/\ i < j
              /\ schedule.entries[i].room = schedule.entries[j].room
              /\ schedule.entries[i].day = schedule.entries[j].day)
             => Hours(schedule.entries[i].time, schedule.entries[i].duration)
                  \cap Hours(schedule.entries[j].time, schedule.entries[j].duration) = {}

\* Greedy placed a lab that prefers the last hour of the day, and a lab that
\* prefers 08:00 on another day than the lab it found at Monday 09:00 in the
\* only room.
C24_Witness ==
    /\ last.op = "generate"
    /\ last.outcome = "returned"
    /\ Len(rooms) = 1
    /\ \E i, j, k \in 1..Len(schedule.entries) :
          /\ courses[schedule.entries[i].course].preferred_times = {NumTimes}
          /\ schedule.entries[i].duration > 1
          /\ schedule.entries[j].day = 1
          /\ schedule.entries[j].time = 2
          /\ schedule.entries[j].duration > 1
          /\ courses[schedule.entries[k].course].preferred_times = {1}
          /\ schedule.entries[k].duration > 1
          /\ schedule.entries[k].time = 1
          /\ schedule.entries[k].day # 1

\* C25: generate_schedule processes the courses in non-increasing order of
\* their priority score, for any number of courses and any input order:
\* whenever course A is processed before course B, priority(A) >=
\* priority(B).
C25_ProcessedByPriority ==
    last.op = "generate"
    => \A i, j \in 1..Len(last.order) :
          i < j => Priority(courses[last.order[i]]) >= Priority(courses[last.order[j]])

\* C26: when two or more courses have equal priority scores,
\* generate_schedule still completes and returns a schedule that covers
\* every course, as an entry or as a conflict; prioritization never raises on
\* tied priorities.
C26_TiesDoNotRaise ==
    (/\ last.op = "generate"
     /\ \E c, d \in DOMAIN courses :
           c # d /\ Priority(courses[c]) = Priority(courses[d]))
    => /\ last.outcome = "returned"
       /\ \A c \in DOMAIN courses :
             \/ \E i \in 1..Len(schedule.entries) : schedule.entries[i].course = c
             \/ \E i \in 1..Len(schedule.conflicts) :
                   schedule.conflicts[i] = CouldNotSchedule(c)

C28_PoolMatchesGreedySchedule ==
    (/\ last.op = "generate"
     /\ last.outcome = "returned"
     /\ before.pool = FreshPool(rooms, faculty))
    => /\ \A r \in DOMAIN rooms, day \in Days, t \in Times :
             <<day, t>> \in availability[r]
             <=> \E i \in 1..Len(schedule.entries) :
                    /\ schedule.entries[i].room = r
                    /\ schedule.entries[i].day = day
                    /\ t \in Hours(schedule.entries[i].time, schedule.entries[i].duration)
       /\ \A f \in DOMAIN faculty :
             assigned_slots[f] =
                 { slot \in Days \X (1..(NumTimes + LabDuration)) :
                     \E i \in 1..Len(schedule.entries) :
                        /\ schedule.entries[i].faculty = f
                        /\ schedule.entries[i].day = slot[1]
                        /\ slot[2] \in Hours(schedule.entries[i].time,
                                             schedule.entries[i].duration) }

\* Greedy placed three courses in two rooms, a lab among them.
C28_Witness ==
    /\ last.op = "generate"
    /\ last.outcome = "returned"
    /\ before.pool = FreshPool(rooms, faculty)
    /\ Len(schedule.entries) = 3
    /\ \E i, j \in 1..3 :
          /\ schedule.entries[i].room # schedule.entries[j].room
          /\ schedule.entries[i].duration > 1

\* C29: when optimize_schedule returns, in every outcome (full success, no
\* candidate for some course, budget exhausted), the room grids and the
\* faculty assigned_slots and current_teaching_hours reflect exactly the
\* entries of the returned schedule.
C29_PoolMatchesOptimizedSchedule ==
    last.op = "backtrack" => PoolReflects(Pool, schedule)

\* The most _backtrack_optimize calls a search over n unscheduled courses
\* can make: one call, and one search over the remaining courses for each
\* of at most NumTriples(rooms) candidates.
RECURSIVE MostCalls(_)
MostCalls(n) ==
    IF n = 0 THEN 1 ELSE 1 + NumTriples(rooms) * MostCalls(n - 1)

\* C30: optimize_schedule terminates: every level walks a finite candidate
\* list computed once, and the search makes at most max_iterations + 1 calls
\* of _backtrack_optimize before a result is propagated to the top.
C30_CallsWithinCeiling ==
    last.op = "backtrack"
    => /\ last.iteration <= last.budget + 1
       /\ last.iteration <= MostCalls(Len(courses))
       /\ last.exhausted => last.outcome = "found"

\* The ceiling was hit on the call after the last one allowed, after the
\* search had rejected candidates, and the path was returned.
C30_Witness ==
    /\ last.op = "backtrack"
    /\ last.exhausted
    /\ last.budget = MidBudget
    /\ last.iteration = MidBudget + 1
    /\ last.iteration > Len(last.path) - Len(before.schedule.entries) + 1

\* ResourceOptimizer: the schedule the faculty load-balancing pass was
\* handed, and the one it returned.
BeforeBalancing == passes[1]

AfterBalancing == passes[2]

\* C31: after the faculty load-balancing pass of a schedule in which every
\* faculty member's summed entry durations were within max_teaching_hours
\* and booked on the faculty objects, no member who received an entry has
\* summed entry durations above max_teaching_hours, and every member who
\* received an entry is of the department of the courses received.
C31_ReceiversStayWithinCap ==
    ( /\ last.op = "optimize"
      /\ \A f \in DOMAIN faculty :
            /\ FacultyLoad(BeforeBalancing.entries, f) <= faculty[f].max_teaching_hours
            /\ before.pool.current_teaching_hours[f]
                  = FacultyLoad(BeforeBalancing.entries, f) )
    => \A f \in DOMAIN faculty :
          FacultyLoad(AfterBalancing.entries, f) > FacultyLoad(BeforeBalancing.entries, f)
          => /\ FacultyLoad(AfterBalancing.entries, f) <= faculty[f].max_teaching_hours
             /\ \A i \in 1..Len(AfterBalancing.entries) :
                   AfterBalancing.entries[i].faculty = f
                   => courses[AfterBalancing.entries[i].course].department
                         = faculty[f].department

\* ResourceOptimizer: the room grids as the room-utilization pass finds
\* them when it reaches entry i, given the moves it made for the entries
\* before i (the new room reserved, the old one freed).
RECURSIVE RoomPassGrids(_)
RoomPassGrids(i) ==
    IF i = 1 THEN before.pool.availability
    ELSE LET grids == RoomPassGrids(i - 1)
             old == before.schedule.entries[i - 1]
             new == passes[1].entries[i - 1]
             hours == { <<old.day, t>> : t \in Window(old.time, old.duration) }
         IN IF new.room = old.room THEN grids
            ELSE [ r \in DOMAIN rooms |->
                     IF r = old.room THEN grids[r] \ hours
                     ELSE IF r = new.room THEN grids[r] \cup hours
                     ELSE grids[r] ]

\* Room r is another, smaller room that suits the course of entry i of the
\* input schedule and is free for the entry's window at the entry's turn.
SmallerFreeRoom(i, r) ==
    LET e == before.schedule.entries[i]
        c == courses[e.course]
    IN /\ r # e.room
       /\ rooms[r].capacity >= c.capacity
       /\ rooms[r].capacity < rooms[e.room].capacity
       /\ (c.room_type_required # "" => rooms[r].room_type = c.room_type_required)
       /\ c.required_equipment \subseteq rooms[r].equipment
       /\ \A t \in e.time..(e.time + e.duration - 1) :
             t <= NumTimes /\ <<e.day, t>> \notin RoomPassGrids(i)[r]

\* C32: on a schedule whose entries are exactly what the rooms and faculty
\* hold, the room-utilization pass keeps every entry in place but for its
\* room; an entry filling less than 0.6 of its room is moved to a smaller
\* suitable room that is free for its window whenever there is one, and is
\* left unchanged otherwise; every other entry is left unchanged; no entry
\* ends in a larger room; the rooms' grids follow the moves.
C32_MovedWheneverSmallerRoomFree ==
    (last.op = "optimize" /\ PoolReflects(before.pool, before.schedule))
    => /\ Len(passes[1].entries) = Len(before.schedule.entries)
       /\ \A i \in 1..Len(before.schedule.entries) :
             LET e == before.schedule.entries[i]
                 n == passes[1].entries[i]
             IN /\ n = [e EXCEPT !.room = n.room]
                /\ rooms[n.room].capacity <= rooms[e.room].capacity
                /\ IF /\ 10 * courses[e.course].capacity < 6 * rooms[e.room].capacity
                      /\ \E r \in DOMAIN rooms : SmallerFreeRoom(i, r)
                   THEN SmallerFreeRoom(i, n.room)
                   ELSE n = e
       /\ availability = RoomPassGrids(Len(before.schedule.entries) + 1)

\* The values of a domain.
Values(domain) == { domain[j] : j \in 1..Len(domain) }

\* C33: _constraint_propagation ends within two sweeps; it keeps the
\* variables and the order of each domain and adds no value; every value it
\* leaves satisfies all hard constraints against the rooms and faculty as
\* they stand; on domains _get_assignment_domain has just built, with no
\* booking in between, it removes nothing.
C33_PropagationReachesFixedPoint ==
    last.op = "constraint_propagation"
    => /\ last.sweeps <= 2
       /\ Len(report) = Len(before.variables)
       /\ \A i \in 1..Len(report) :
             /\ report[i].course = before.variables[i].course
             /\ report[i].domain =
                    SelectSeq(before.variables[i].domain,
                              LAMBDA k : k \in Values(report[i].domain))
             /\ \A k \in Values(report[i].domain) :
                    SatisfiesHardConstraints(courses, rooms, faculty, Pool,
                        FullAssignment(courses, report[i].course, DomainValue(rooms, k)))
       /\ (~last.booked => report = before.variables)

\* A booking made after the variables were built costs one variable some
\* values and leaves it others, while another variable loses everything.
C33_Witness ==
    /\ last.op = "constraint_propagation"
    /\ last.booked
    /\ last.sweeps = 2
    /\ \E i \in 1..Len(report) :
          /\ Len(report[i].domain) > 0
          /\ Len(report[i].domain) < Len(before.variables[i].domain)
    /\ \E i \in 1..Len(report) :
          /\ Len(report[i].domain) = 0
          /\ Len(before.variables[i].domain) > 0

\* C34: calculate_conflict_score returns, and its score lies between 0 and
\* 100, for every conflict mapping.
C34_ConflictScoreInRange ==
    last.op = "conflict_score"
    => /\ last.outcome = "returned"
       /\ last.score.num >= 0
       /\ last.score.num <= 100 * last.score.den

ViolationCount(rep, description, code) ==
    Len(SelectSeq(rep.hard_violations,
                  LAMBDA v : v.description = description /\ v.code = code))

\* C36: when validate_schedule is run on a schedule with entries, each of
\* which has its window reserved in its room, the report is not valid and
\* holds exactly one "Room availability" violation for every entry.
C36_AppliedScheduleIsInvalid ==
    ( /\ last.op = "validate"
      /\ Len(schedule.entries) > 0
      /\ \A i \in 1..Len(schedule.entries) :
            \A t \in Hours(schedule.entries[i].time, schedule.entries[i].duration) :
                <<schedule.entries[i].day, t>> \in availability[schedule.entries[i].room] )
    => /\ ~report.valid
       /\ \A i \in 1..Len(schedule.entries) :
             ViolationCount(report, "Room availability", schedule.entries[i].course)
                = Len(SelectSeq(schedule.entries,
                                LAMBDA e : e.course = schedule.entries[i].course))

\* The greedy schedule of two courses, validated as the scheduler left the
\* rooms.
C36_Witness ==
    /\ last.op = "validate"
    /\ Len(schedule.entries) = 2
    /\ PoolReflects(Pool, schedule)
    /\ ~report.valid
    /\ ViolationCount(report, "Room availability", schedule.entries[1].course) = 1
    /\ ViolationCount(report, "Room availability", schedule.entries[2].course) = 1

\* C37: in every validate_schedule report, valid is true exactly when
\* hard_violations is empty, and soft_violations is empty.
C37_ValidIffNoHardViolation ==
    last.op = "validate"
    => /\ report.valid <=> (Len(report.hard_violations) = 0)
       /\ Len(report.soft_violations) = 0

\* A valid report and an invalid one, each for an entry of a faculty member
\* whose preferred day is another one.
C37_Witness ==
    /\ last.op = "validate"
    /\ \E i \in 1..Len(schedule.entries) :
          /\ faculty[schedule.entries[i].faculty].preferred_days # {}
          /\ schedule.entries[i].day \notin faculty[schedule.entries[i].faculty].preferred_days
    /\ report.valid

\* The number of entries of the list that are of course c.
CourseCount(entries, c) ==
    Len(SelectSeq(entries, LAMBDA e : e.course = c))

\* C38: the schedule optimize_resource_allocation returns has no conflict
\* strings, whatever the input carried, and has as many entries as the
\* input, with every course in as many entries as before.
C38_OptimizedDropsConflictsKeepsCourses ==
    last.op = "optimize"
    => /\ Len(schedule.conflicts) = 0
       /\ Len(schedule.entries) = Len(before.schedule.entries)
       /\ \A c \in DOMAIN courses :
             CourseCount(schedule.entries, c) = CourseCount(before.schedule.entries, c)

\* An optimizer run on a schedule that carried the conflict of an
\* unscheduled course and in which a pass moved an entry.
C38_Witness ==
    /\ last.op = "optimize"
    /\ Len(before.schedule.conflicts) > 0
    /\ Len(before.schedule.entries) > 0
    /\ schedule.entries # before.schedule.entries

\* A pool with every slot of every room reserved and every faculty member
\* assigned at every slot, at the cap of teaching hours.
BookedPool(rs, fs) ==
    [ availability |-> [r \in DOMAIN rs |-> Days \X Times],
      assigned_slots |-> [f \in DOMAIN fs |-> Days \X Times],
      current_teaching_hours |-> [f \in DOMAIN fs |-> fs[f].max_teaching_hours] ]

\* C39: the entries optimize_schedule returns are those it returns for the
\* same input schedule and budget when the rooms and the faculty are
\* untouched at call time, and when they are fully booked at call time.
C39_ResultIgnoresPriorAvailability ==
    last.op = "backtrack"
    => \A p \in {FreshPool(rooms, faculty), BookedPool(rooms, faculty)} :
          \E other \in {OptimizeSchedule(courses, rooms, faculty, before.schedule,
                                         p, last.budget)} :
             /\ other.schedule.entries = schedule.entries
             /\ other.schedule.conflicts = schedule.conflicts
             /\ other.pool = Pool

\* A run on the greedy scheduler's output of two entries, with the rooms
\* and the faculty as the scheduler left them, that returns entries.
C39_Witness ==
    /\ last.op = "backtrack"
    /\ last.after = "generate"
    /\ last.outcome = "found"
    /\ before.pool # FreshPool(rooms, faculty)
    /\ before.pool # BookedPool(rooms, faculty)
    /\ Len(before.schedule.entries) = 2
    /\ Len(schedule.entries) = 2

\* The entries of the schedule that start at the given day and time in
\* room r.
StartingInRoom(r, day, time) ==
    { i \in 1..Len(schedule.entries) :
        /\ schedule.entries[i].room = r
        /\ schedule.entries[i].day = day
        /\ schedule.entries[i].time = time }

\* The entries of the schedule that start at the given day and time and are
\* of faculty member f.
StartingForFaculty(f, day, time) ==
    { i \in 1..Len(schedule.entries) :
        /\ schedule.entries[i].faculty = f
        /\ schedule.entries[i].day = day
        /\ schedule.entries[i].time = time }

\* Entries i and j are on the same day, start at different hours and have
\* a common hour.
OverlapApart(i, j) ==
    /\ schedule.entries[i].day = schedule.entries[j].day
    /\ schedule.entries[i].time # schedule.entries[j].time
    /\ Window(schedule.entries[i].time, schedule.entries[i].duration)
         \cap Window(schedule.entries[j].time, schedule.entries[j].duration) # {}

\* C40: every room_double_booking record is for a room, day and start time
\* that at least two entries share, and lists exactly those entries; the same
\* holds for faculty_double_booking. Two entries in one room (of one faculty
\* member) whose windows overlap but whose start times differ are listed
\* together in no record.
C40_DoubleBookingByStartSlotOnly ==
    last.op = "detect"
    => /\ \A k \in DOMAIN report.room_double_booking :
             LET rec == report.room_double_booking[k]
                 group == StartingInRoom(rec.room_id, rec.day, rec.time)
             IN /\ Cardinality(group) >= 2
                /\ Len(rec.conflicting_courses) = Cardinality(group)
       /\ \A k \in DOMAIN report.faculty_double_booking :
             LET rec == report.faculty_double_booking[k]
                 group == StartingForFaculty(rec.faculty_id, rec.day, rec.time)
             IN /\ Cardinality(group) >= 2
                /\ Len(rec.conflicting_courses) = Cardinality(group)
       /\ ( /\ \E i, j \in 1..Len(schedule.entries) :
                  OverlapApart(i, j) /\ schedule.entries[i].room = schedule.entries[j].room
            /\ \A i \in 1..Len(schedule.entries) :
                  Cardinality(StartingInRoom(schedule.entries[i].room,
                      schedule.entries[i].day, schedule.entries[i].time)) = 1 )
          => Len(report.room_double_booking) = 0
       /\ ( /\ \E i, j \in 1..Len(schedule.entries) :
                  OverlapApart(i, j) /\ schedule.entries[i].faculty = schedule.entries[j].faculty
            /\ \A i \in 1..Len(schedule.entries) :
                  Cardinality(StartingForFaculty(schedule.entries[i].faculty,
                      schedule.entries[i].day, schedule.entries[i].time)) = 1 )
          => Len(report.faculty_double_booking) = 0

\* Two two-hour entries of one faculty member in one room that start one
\* hour apart, and a report without any double-booking record.
C40_Witness ==
    /\ last.op = "detect"
    /\ Len(schedule.entries) = 2
    /\ OverlapApart(1, 2)
    /\ schedule.entries[1].room = schedule.entries[2].room
    /\ schedule.entries[1].faculty = schedule.entries[2].faculty
    /\ schedule.entries[1].duration = LabDuration
    /\ schedule.entries[2].duration = LabDuration
    /\ Len(report.room_double_booking) = 0
    /\ Len(report.faculty_double_booking) = 0

====
